---------------------------- MODULE Spec2Model ----------------------------
(***************************************************************************)
(* State-machine model of the document-structure extraction scripts:       *)
(*   scripts/analyze_dwqar_excel_template.py  (Sheet-Header Locator)       *)
(*   scripts/extract_compliance_rules.py      (Rule-Identifier Extractor)  *)
(*   scripts/analyze_compliance_strategy.py   (Keyword-Bucket Scanner)     *)
(*   scripts/analyze_dwsp_templates.py        (DWSP element finder)        *)
(* and of the batch scripts around them:                                   *)
(*   scripts/download_additional_docs.py, scripts/download_nz_water_docs.py*)
(*   scripts/analyze_regulatory_docs.py       (verification gate)          *)
(*                                                                         *)
(* Text is modelled as a sequence of one-character strings, so that        *)
(* strip(), lower(), split(), startswith() and substring search are        *)
(* computed character by character.  A Python value that may be None is a  *)
(* sequence of length at most one: None is << >> and a value v is <<v>>.   *)
(***************************************************************************)
EXTENDS Integers, Sequences, FiniteSets, Bags, TLC

VARIABLES
    \* ---- analyze_excel_template ----
    template_exists,   \* TEMPLATE_PATH.exists()
    wb,                \* the loaded workbook: a sequence of sheets
    pc,                \* position inside analyze_excel_template
    sheet_idx,         \* index of the sheet the for loop is at
    row_idx,           \* row the header scan is at
    headers,           \* local `headers`
    data_start_row,    \* local `data_start_row` (optional)
    header_details,    \* local `header_details` (unbound until first assigned)
    sampled,           \* rows printed as sample data for the current sheet
    analysis,          \* analysis["sheets"]
    output_file,       \* content of OUTPUT_PATH (optional)
    \* ---- extract_rules ----
    rx_exists,         \* TEMPLATE_PATH.exists()
    rx_has_sheet,      \* "RuleIDs" in wb.sheetnames
    column,            \* column A of the RuleIDs sheet, rows 1..max_row
    rx_pc,             \* position inside extract_rules
    rx_row_idx,        \* row the extraction loop is at
    rules,             \* local `rules`
    rule_ids_seen,     \* local `rule_ids_seen`
    rules_file,        \* content of OUTPUT_PATH (optional)
    \* ---- analyze_compliance_strategy: main ----
    ks_docs,           \* the files of STRATEGIES, in order
    ks_pc,             \* position inside main / analyze_strategy
    ks_idx,            \* index of the strategy the for loop is at
    ks_text,           \* local `text` of analyze_strategy
    ks_cands,          \* `priorities` of extract_priorities before line 70
    ks_results,        \* local `results` of main
    ks_file,           \* content of compliance_strategy_analysis.json (optional)
    \* ---- analyze_dwsp_templates: main ----
    dw_docs,           \* the files of TEMPLATES, in order
    dw_pc,             \* position inside main / analyze_template
    dw_idx,            \* index of the template the for loop is at
    dw_text,           \* local `text` of analyze_template
    dw_lines,          \* local `lines` of find_dwsp_elements
    dw_line_idx,       \* index of the line the search loop is at
    dw_elements,       \* local `elements` of find_dwsp_elements
    dw_results,        \* local `results` of main
    dw_file,           \* content of dwsp_template_analysis.json (optional)
    \* ---- download_additional_docs / download_nz_water_docs ----
    dl_script,         \* which of the two download scripts is run
    dl_files,          \* content of download_dir: file name -> content (optional)
    dl_idx,            \* index of the table entry the for loop is at
    dl_pc,             \* position inside the script
    dl_log,            \* one record per call of download_file / download_pdf
    dl_default,        \* what the network and the disk do unless they deviate
    dl_deviations,     \* number of attempts that did not follow dl_default
    success_count,     \* `success_count` of download_additional_docs
    failed_count,      \* `failed_count` of download_additional_docs
    \* ---- analyze_regulatory_docs: main ----
    rg_present,        \* the inventoried files that exist in DOCS_DIR
    rg_pc,             \* position inside main
    rg_idx,            \* number of phase analyses generated
    rg_found,          \* local `found`
    rg_missing,        \* local `missing`
    rg_written         \* output files written so far, in order

hvars == <<template_exists, wb, pc, sheet_idx, row_idx, headers, data_start_row,
           header_details, sampled, analysis, output_file>>
rvars == <<rx_exists, rx_has_sheet, column, rx_pc, rx_row_idx, rules,
           rule_ids_seen, rules_file>>
kvars == <<ks_docs, ks_pc, ks_idx, ks_text, ks_cands, ks_results, ks_file>>
dvars == <<dw_docs, dw_pc, dw_idx, dw_text, dw_lines, dw_line_idx, dw_elements,
           dw_results, dw_file>>
lvars == <<dl_script, dl_files, dl_idx, dl_pc, dl_log, dl_default,
           dl_deviations, success_count, failed_count>>
gvars == <<rg_present, rg_pc, rg_idx, rg_found, rg_missing, rg_written>>
vars == <<hvars, rvars, kvars, dvars, lvars, gvars>>

---------------------------------------------------------------------------
(* Optional values *)
None == << >>
Some(v) == <<v>>
IsNone(o) == o = << >>
Val(o) == o[1]

Min(a, b) == IF a < b THEN a ELSE b

---------------------------------------------------------------------------
(* Python str operations, on sequences of characters *)

UpperAlpha == <<"A","B","C","D","E","F","G","H","I","J","K","L","M",
                "N","O","P","Q","R","S","T","U","V","W","X","Y","Z">>
LowerAlpha == <<"a","b","c","d","e","f","g","h","i","j","k","l","m",
                "n","o","p","q","r","s","t","u","v","w","x","y","z">>

IsSpace(c) == c \in {" ", "\t", "\n"}

LowerChar(c) ==
    IF \E i \in 1..Len(UpperAlpha) : UpperAlpha[i] = c
    THEN LowerAlpha[CHOOSE i \in 1..Len(UpperAlpha) : UpperAlpha[i] = c]
    ELSE c

\* s.lower()
Lower(s) == [i \in 1..Len(s) |-> LowerChar(s[i])]

\* s.strip()
Strip(s) ==
    LET keep == {i \in 1..Len(s) : ~IsSpace(s[i])}
    IN  IF keep = {} THEN << >>
        ELSE LET lo == CHOOSE i \in keep : \A j \in keep : i <= j
                 hi == CHOOSE i \in keep : \A j \in keep : j <= i
             IN  SubSeq(s, lo, hi)

\* k in s
Contains(s, k) ==
    \E i \in 0..(Len(s) - Len(k)) : SubSeq(s, i + 1, i + Len(k)) = k

\* s.startswith(p)
StartsWith(s, p) == Len(s) >= Len(p) /\ SubSeq(s, 1, Len(p)) = p

\* sep.join(list)
RECURSIVE Join(_, _)
Join(sep, list) ==
    IF list = << >> THEN << >>
    ELSE IF Len(list) = 1 THEN list[1]
    ELSE list[1] \o sep \o Join(sep, Tail(list))

\* s.split(ch) for a one-character separator
RECURSIVE Split(_, _)
Split(s, ch) ==
    LET at == {i \in 1..Len(s) : s[i] = ch}
    IN  IF at = {} THEN <<s>>
        ELSE LET i == CHOOSE k \in at : \A j \in at : k <= j
             IN  <<SubSeq(s, 1, i - 1)>> \o Split(SubSeq(s, i + 1, Len(s)), ch)

Digits == <<"0","1","2","3","4","5","6","7","8","9">>

\* str(n) for a natural number
RECURSIVE DecStr(_)
DecStr(n) ==
    IF n < 10 THEN <<Digits[n + 1]>>
    ELSE DecStr(n \div 10) \o <<Digits[(n % 10) + 1]>>

\* str(cell.value) if cell.value is not None else ""
CellText(value) == IF IsNone(value) THEN << >> ELSE Val(value)

---------------------------------------------------------------------------
(* analyze_dwqar_excel_template.py *)

ScanWindow == 20
HeaderThreshold == 3
MaxHeadersShown == 30
SampleRows == 4

HeaderKeywords ==
    { <<"s","u","p","p","l","y">>, <<"n","a","m","e">>, <<"c","o","d","e">>,
      <<"d","a","t","e">>, <<"w","a","t","e","r">>,
      <<"c","o","m","p","l","i","a","n","c","e">> }

\* A sheet stores its cells sparsely: `first` leading rows hold no cell at
\* all, the rows after them are `rows`, and a row shorter than max_column
\* has no cell in the remaining columns.
RECURSIVE MaxLen(_)
MaxLen(rows) ==
    IF rows = << >> THEN 0
    ELSE LET m == MaxLen(Tail(rows))
         IN  IF Len(Head(rows)) > m THEN Len(Head(rows)) ELSE m

\* sheet.cell(row=r, column=c).value
CellValue(sheet, r, c) ==
    IF r > sheet.first /\ r - sheet.first <= Len(sheet.rows)
       /\ c <= Len(sheet.rows[r - sheet.first])
    THEN sheet.rows[r - sheet.first][c]
    ELSE None

\* variant: the scan not limited to the first 20 rows
ScanRange_AllRows(max_row) == 1..max_row

\* range(1, min(21, max_row + 1))
ScanRange(max_row) == 1..(Min(ScanWindow + 1, max_row + 1) - 1)

\* row_values of one row
RowValues(sheet, r) ==
    [c \in 1..sheet.max_column |-> CellText(CellValue(sheet, r, c))]

IsNonEmpty(v) == Strip(v) # << >>

\* non_empty = [v for v in row_values if v.strip()]
RECURSIVE NonEmpty(_)
NonEmpty(row_values) ==
    IF row_values = << >> THEN << >>
    ELSE (IF IsNonEmpty(Head(row_values)) THEN <<Head(row_values)>> ELSE << >>)
         \o NonEmpty(Tail(row_values))

\* variant: the threshold taken as "at least 3"
IsCandidate_AtLeast(non_empty) == Len(non_empty) >= HeaderThreshold

\* len(non_empty) > 3
IsCandidate(non_empty) == Len(non_empty) > HeaderThreshold

\* any(keyword in ' '.join(non_empty).lower() for keyword in [...])
HasKeyword(non_empty) ==
    \E keyword \in HeaderKeywords :
        Contains(Lower(Join(<<" ">>, non_empty)), keyword)

\* variant: the first candidate row accepted without the keyword test
AcceptsHeader_AnyCandidate(dsr, non_empty) == IsNone(dsr)

\* variant: every candidate row with a keyword accepted, the last one kept
AcceptsHeader_LastWins(dsr, non_empty) == HasKeyword(non_empty)

\* not data_start_row and any(...)
AcceptsHeader(dsr, non_empty) ==
    IsNone(dsr) /\ HasKeyword(non_empty)

\* one entry of header_details
HeaderDetail(idx, header) ==
    [column_index |-> idx,
     header_name |-> header,
     database_mapping |-> <<"T","O","_","B","E","_","M","A","P","P","E","D","_">>
                          \o DecStr(idx),
     required |-> <<"U","N","K","N","O","W","N">>,
     data_type |-> <<"U","N","K","N","O","W","N">>]

\* clean_headers = [h.strip() for h in headers if h.strip()]
CleanHeaders(hs) ==
    LET kept == NonEmpty(hs) IN [i \in 1..Len(kept) |-> Strip(kept[i])]

\* header_details built from enumerate(clean_headers[:30], 1)
HeaderDetails(hs) ==
    LET clean == CleanHeaders(hs)
        shown == SubSeq(clean, 1, Min(MaxHeadersShown, Len(clean)))
    IN  [i \in 1..Len(shown) |-> HeaderDetail(i, shown[i])]

\* "header_row": 1 if headers else None
HeaderRow(hs) == IF hs # << >> THEN Some(1) ELSE None

\* rows printed by the sample loop
SampledRows(dsr, max_row) ==
    IF ~IsNone(dsr) /\ Val(dsr) <= max_row
    THEN Val(dsr)..(Min(Val(dsr) + SampleRows, max_row + 1) - 1)
    ELSE {}

---------------------------------------------------------------------------
(* extract_compliance_rules.py *)

\* variant: whitespace-only cells not skipped
IsUsable_NoStrip(cell_value) == ~IsNone(cell_value) /\ Val(cell_value) # << >>

\* if cell_value and str(cell_value).strip()
IsUsable(cell_value) ==
    /\ ~IsNone(cell_value) /\ Val(cell_value) # << >>
    /\ Strip(Val(cell_value)) # << >>

\* rule_id = str(cell_value).strip()
RuleIdOf(cell_value) == Strip(Val(cell_value))

\* variant: the part after the first hyphen taken whatever the number of parts
ParameterOf_AnyHyphen(rule_id) ==
    IF Contains(rule_id, <<"-">>)
    THEN Some(Lower(Split(rule_id, "-")[2]))
    ELSE None

\* lines 57-63
ParameterOf(rule_id) ==
    IF Contains(rule_id, <<"-">>)
    THEN LET parts == Split(rule_id, "-")
         IN  IF Len(parts) = 2 THEN Some(Lower(parts[2])) ELSE None
    ELSE None

\* variant: every T identifier classified by the letter alone
Categorize_ShortPrefix(rule_id) ==
    IF StartsWith(rule_id, <<"T">>) THEN "BACTERIOLOGICAL"
    ELSE IF StartsWith(rule_id, <<"M">>) THEN "MONITORING"
    ELSE IF StartsWith(rule_id, <<"V">>) THEN "VERIFICATION"
    ELSE IF StartsWith(rule_id, <<"O">>) THEN "OPERATIONAL"
    ELSE "WATER_QUALITY"

\* variant: the prefixes compared without regard to case
Categorize_IgnoreCase(rule_id) ==
    IF StartsWith(Lower(rule_id), <<"t","1">>) THEN "BACTERIOLOGICAL"
    ELSE IF StartsWith(Lower(rule_id), <<"t","2">>) THEN "CHEMICAL"
    ELSE IF StartsWith(Lower(rule_id), <<"t","3">>) THEN "PROTOZOA"
    ELSE IF StartsWith(Lower(rule_id), <<"t","4">>) THEN "RADIOLOGICAL"
    ELSE IF StartsWith(Lower(rule_id), <<"m">>) THEN "MONITORING"
    ELSE IF StartsWith(Lower(rule_id), <<"v">>) THEN "VERIFICATION"
    ELSE IF StartsWith(Lower(rule_id), <<"o">>) THEN "OPERATIONAL"
    ELSE "WATER_QUALITY"

\* lines 66-81
Categorize(rule_id) ==
    IF StartsWith(rule_id, <<"T","1">>) THEN "BACTERIOLOGICAL"
    ELSE IF StartsWith(rule_id, <<"T","2">>) THEN "CHEMICAL"
    ELSE IF StartsWith(rule_id, <<"T","3">>) THEN "PROTOZOA"
    ELSE IF StartsWith(rule_id, <<"T","4">>) THEN "RADIOLOGICAL"
    ELSE IF StartsWith(rule_id, <<"M">>) THEN "MONITORING"
    ELSE IF StartsWith(rule_id, <<"V">>) THEN "VERIFICATION"
    ELSE IF StartsWith(rule_id, <<"O">>) THEN "OPERATIONAL"
    ELSE "WATER_QUALITY"

\* "Compliance rule "
DescriptionPrefix ==
    <<"C","o","m","p","l","i","a","n","c","e"," ","r","u","l","e"," ">>

\* variant: the description without the identifier
BuildRule_FixedDescription(rule_id, category, parameter) ==
    [ruleId |-> rule_id,
     category |-> category,
     parameter |-> parameter,
     description |-> DescriptionPrefix,
     isActive |-> TRUE,
     applicability |-> "All supply sizes",
     effectiveDate |-> "2024-01-01T00:00:00.000Z"]

\* lines 84-92
BuildRule(rule_id, category, parameter) ==
    [ruleId |-> rule_id,
     category |-> category,
     parameter |-> parameter,
     description |-> DescriptionPrefix \o rule_id,
     isActive |-> TRUE,
     applicability |-> "All supply sizes",
     effectiveDate |-> "2024-01-01T00:00:00.000Z"]

\* variant: duplicates detected on the cell text before it is stripped
ProcessCell_RawDedup(st, cell_value) ==
    IF IsUsable(cell_value)
    THEN IF Val(cell_value) \in st.seen
         THEN st
         ELSE LET rule_id == RuleIdOf(cell_value)
              IN  [rules |-> Append(st.rules,
                                    BuildRule(rule_id, Categorize(rule_id),
                                              ParameterOf(rule_id))),
                   seen |-> st.seen \cup {Val(cell_value)}]
    ELSE st

\* lines 44-94: the loop body, on the pair (rules, rule_ids_seen)
ProcessCell(st, cell_value) ==
    IF IsUsable(cell_value)
    THEN LET rule_id == RuleIdOf(cell_value)
         IN  IF rule_id \in st.seen
             THEN st
             ELSE [rules |-> Append(st.rules,
                                    BuildRule(rule_id, Categorize(rule_id),
                                              ParameterOf(rule_id))),
                   seen |-> st.seen \cup {rule_id}]
    ELSE st

\* lines 40-94: the whole loop over a column
RECURSIVE ExtractFrom(_, _)
ExtractFrom(st, col) ==
    IF col = << >> THEN st
    ELSE ExtractFrom(ProcessCell(st, Head(col)), Tail(col))

ExtractRules(col) == ExtractFrom([rules |-> << >>, seen |-> {}], col).rules

\* lines 110-118
OutputData(rs) ==
    [metadata |-> [source |-> "DWQAR_Reporting_Template.xlsx",
                   sheet |-> "RuleIDs",
                   extractionDate |-> "2025-10-05",
                   totalRules |-> Len(rs)],
     rules |-> rs]

---------------------------------------------------------------------------
(* Workbooks the analyser is run on *)

MaxRows == 2
MaxPad == 20

T(s) == Some(s)

R_blank == << >>
R_kw3 == << T(<<"W","a","t","e","r">>), T(<<" ">>), None,
            T(<<"S","u","p","p","l","y">>), T(<<"N","a","m","e">>), T(<< >>) >>
R_gen5 == << T(<<"a">>), T(<<"b">>), T(<<"c">>), T(<<"d">>), T(<<"e">>) >>
R_split == << T(<<"s","u","p">>), T(<<"p","l","y">>), T(<<"c","o">>),
              T(<<"d","e">>) >>
R_kw4 == << T(<<" ","W","a","t","e","r"," ">>), None, T(<<"I","d">>),
            T(<<"\t">>), T(<<"N","o",".">>), T(<<"T","y","p","e"," ">>) >>
R_kw5 == << T(<<"W","a","t","e","r">>), T(<<"S","u","p","p","l","y">>),
            T(<<"N","a","m","e">>), T(<<"C","o","d","e">>),
            T(<<"D","a","t","e">>) >>
R_wide == [c \in 1..(MaxHeadersShown + 1) |->
             IF c = 1 THEN T(<<"D","a","t","e">>) ELSE T(<<"c">> \o DecStr(c))]

RowSet == {R_blank, R_kw3, R_gen5, R_split, R_kw4, R_kw5}

RECURSIVE SeqsUpTo(_, _)
SeqsUpTo(S, n) ==
    IF n = 0 THEN {<< >>}
    ELSE LET shorter == SeqsUpTo(S, n - 1)
         IN  shorter \cup {Append(q, x) : q \in shorter, x \in S}

MkSheet(first, rows) ==
    [first |-> first, rows |-> rows,
     max_row |-> first + Len(rows), max_column |-> MaxLen(rows)]

\* a sheet that has columns but no row
NoRowSheet == [first |-> 0, rows |-> << >>, max_row |-> 0, max_column |-> 5]

\* sheets whose header row has more cells than the listing shows
WideSheets ==
    {MkSheet(first, rows) : first \in 0..1, rows \in {<<R_wide>>, <<R_gen5, R_wide>>}}

Sheets ==
    {MkSheet(first, rows) : first \in 0..MaxPad, rows \in SeqsUpTo(RowSet, MaxRows)}
    \cup WideSheets \cup {NoRowSheet}

FirstSheets == {MkSheet(0, <<R_kw5, R_gen5>>), MkSheet(1, <<R_wide>>),
                MkSheet(0, <<R_kw3>>)}
SecondSheets == {s \in Sheets : s.first <= 1}

Workbooks ==
    {<<s>> : s \in Sheets} \cup {<<f, s>> : f \in FirstSheets, s \in SecondSheets}

---------------------------------------------------------------------------
(* analyze_excel_template as a state machine *)

RegulatoryIdle ==
    /\ rg_present = {} /\ rg_pc = "idle" /\ rg_idx = 0 /\ rg_found = << >>
    /\ rg_missing = << >> /\ rg_written = << >>

DownloadIdle ==
    /\ dl_script = "none" /\ dl_files = << >> /\ dl_idx = 0 /\ dl_pc = "idle"
    /\ dl_log = << >> /\ dl_default = << >> /\ dl_deviations = 0
    /\ success_count = 0 /\ failed_count = 0

DwspIdle ==
    /\ dw_docs = << >> /\ dw_pc = "idle" /\ dw_idx = 0 /\ dw_text = << >>
    /\ dw_lines = << >> /\ dw_line_idx = 0 /\ dw_elements = << >>
    /\ dw_results = << >> /\ dw_file = None

StrategyIdle ==
    /\ ks_docs = << >> /\ ks_pc = "idle" /\ ks_idx = 0 /\ ks_text = << >>
    /\ ks_cands = << >> /\ ks_results = << >> /\ ks_file = None

RulesIdle ==
    /\ rx_exists = FALSE /\ rx_has_sheet = FALSE /\ column = << >>
    /\ rx_pc = "idle" /\ rx_row_idx = 0 /\ rules = << >>
    /\ rule_ids_seen = {} /\ rules_file = None

HeaderIdle ==
    /\ template_exists = FALSE /\ wb = << >> /\ pc = "idle"
    /\ sheet_idx = 0 /\ row_idx = 0 /\ headers = << >>
    /\ data_start_row = None /\ header_details = None /\ sampled = {}
    /\ analysis = << >> /\ output_file = None

InitHeader ==
    /\ template_exists \in BOOLEAN
    /\ wb \in Workbooks
    /\ pc = "start"
    /\ sheet_idx = 0
    /\ row_idx = 0
    /\ headers = << >>
    /\ data_start_row = None
    /\ header_details = None
    /\ sampled = {}
    /\ analysis = << >>
    /\ output_file = None
    /\ RulesIdle
    /\ StrategyIdle
    /\ DwspIdle
    /\ DownloadIdle
    /\ RegulatoryIdle

\* lines 21-23: the template is missing
TemplateMissing ==
    /\ pc = "start" /\ ~template_exists
    /\ pc' = "aborted"
    /\ UNCHANGED <<template_exists, wb, sheet_idx, row_idx, headers,
                   data_start_row, header_details, sampled, analysis,
                   output_file>>
    /\ UNCHANGED <<rvars, kvars, dvars, lvars, gvars>>

\* lines 26-35: load the workbook, start the analysis record
LoadWorkbook ==
    /\ pc = "start" /\ template_exists
    /\ pc' = "sheets"
    /\ sheet_idx' = 1
    /\ analysis' = << >>
    /\ UNCHANGED <<template_exists, wb, row_idx, headers, data_start_row,
                   header_details, sampled, output_file>>
    /\ UNCHANGED <<rvars, kvars, dvars, lvars, gvars>>

\* lines 38-53: enter the loop body for the next sheet
BeginSheet ==
    /\ pc = "sheets" /\ sheet_idx <= Len(wb)
    /\ headers' = << >>
    /\ data_start_row' = None
    /\ row_idx' = 1
    /\ pc' = "scan"
    /\ UNCHANGED <<template_exists, wb, sheet_idx, header_details, sampled,
                   analysis, output_file>>
    /\ UNCHANGED <<rvars, kvars, dvars, lvars, gvars>>

\* variant: data_start_row set to the header row itself
ScanRow_StartAtHeader ==
    /\ pc = "scan" /\ row_idx \in ScanRange(wb[sheet_idx].max_row)
    /\ LET row_values == RowValues(wb[sheet_idx], row_idx)
           non_empty == NonEmpty(row_values)
       IN  IF IsCandidate(non_empty) /\ AcceptsHeader(data_start_row, non_empty)
           THEN /\ data_start_row' = Some(row_idx)
                /\ headers' = row_values
           ELSE UNCHANGED <<data_start_row, headers>>
    /\ row_idx' = row_idx + 1
    /\ UNCHANGED <<template_exists, wb, pc, sheet_idx, header_details, sampled,
                   analysis, output_file>>
    /\ UNCHANGED <<rvars, kvars, dvars, lvars, gvars>>

\* lines 56-69: one iteration of the header scan
ScanRow ==
    /\ pc = "scan" /\ row_idx \in ScanRange(wb[sheet_idx].max_row)
    /\ LET row_values == RowValues(wb[sheet_idx], row_idx)
           non_empty == NonEmpty(row_values)
       IN  IF IsCandidate(non_empty) /\ AcceptsHeader(data_start_row, non_empty)
           THEN /\ data_start_row' = Some(row_idx + 1)
                /\ headers' = row_values
           ELSE UNCHANGED <<data_start_row, headers>>
    /\ row_idx' = row_idx + 1
    /\ UNCHANGED <<template_exists, wb, pc, sheet_idx, header_details, sampled,
                   analysis, output_file>>
    /\ UNCHANGED <<rvars, kvars, dvars, lvars, gvars>>

\* variant: header_details used whether or not this sheet has headers
SheetAnalysis_StaleDetails(sheet, hs, dsr, details) ==
    [dimensions |-> [rows |-> sheet.max_row, columns |-> sheet.max_column],
     header_row |-> HeaderRow(hs),
     data_start_row |-> dsr,
     headers |-> IF IsNone(details) THEN << >> ELSE Val(details)]

\* lines 102-112
SheetAnalysis(sheet, hs, dsr, details) ==
    [dimensions |-> [rows |-> sheet.max_row, columns |-> sheet.max_column],
     header_row |-> HeaderRow(hs),
     data_start_row |-> dsr,
     headers |-> IF hs # << >> THEN Val(details) ELSE << >>]

\* lines 71-122: the rest of the loop body, after the scan
FinishSheet ==
    /\ pc = "scan" /\ row_idx \notin ScanRange(wb[sheet_idx].max_row)
    /\ header_details' = IF headers # << >> THEN Some(HeaderDetails(headers))
                                              ELSE header_details
    /\ sampled' = SampledRows(data_start_row, wb[sheet_idx].max_row)
    /\ analysis' = Append(analysis,
                          SheetAnalysis(wb[sheet_idx], headers, data_start_row,
                                        header_details'))
    /\ sheet_idx' = sheet_idx + 1
    /\ pc' = "sheets"
    /\ UNCHANGED <<template_exists, wb, row_idx, headers, data_start_row,
                   output_file>>
    /\ UNCHANGED <<rvars, kvars, dvars, lvars, gvars>>

\* lines 125-126: json.dump(analysis, f)
SaveAnalysis ==
    /\ pc = "sheets" /\ sheet_idx > Len(wb)
    /\ output_file' = Some(analysis)
    /\ pc' = "done"
    /\ UNCHANGED <<template_exists, wb, sheet_idx, row_idx, headers,
                   data_start_row, header_details, sampled, analysis>>
    /\ UNCHANGED <<rvars, kvars, dvars, lvars, gvars>>

NextHeader ==
    \/ TemplateMissing
    \/ LoadWorkbook
    \/ BeginSheet
    \/ ScanRow
    \/ FinishSheet
    \/ SaveAnalysis

SpecHeader == InitHeader /\ [][NextHeader]_vars

---------------------------------------------------------------------------
(* Columns the extractor is run on *)

MaxColumn == 3

ColumnCells ==
    { None, T(<< >>), T(<<" "," ">>),
      T(<<"T","1",".","8","-","e","c","o","l">>),
      T(<<" ","T","1",".","8","-","e","c","o","l","\t">>),
      T(<<"t","1",".","8","-","E","c","o","l">>),
      T(<<"T","2","-">>),
      T(<<"T","3",".","2","-","C","r","y","p","t","o">>),
      T(<<"T","4",".","1">>),
      T(<<"M","1","-","a","-","B">>),
      T(<<"V","2">>),
      T(<<"O","3","-","x">>),
      T(<<"X","9",".","1">>) }

Columns == SeqsUpTo(ColumnCells, MaxColumn)

---------------------------------------------------------------------------
(* extract_rules as a state machine *)

InitRules ==
    /\ rx_exists \in BOOLEAN
    /\ rx_has_sheet \in (IF rx_exists THEN BOOLEAN ELSE {FALSE})
    /\ column \in Columns
    /\ rx_pc = "start"
    /\ rx_row_idx = 0
    /\ rules = << >>
    /\ rule_ids_seen = {}
    /\ rules_file = None
    /\ HeaderIdle
    /\ StrategyIdle
    /\ DwspIdle
    /\ DownloadIdle
    /\ RegulatoryIdle

\* lines 21-23: the template is missing
RxTemplateMissing ==
    /\ rx_pc = "start" /\ ~rx_exists
    /\ rx_pc' = "aborted"
    /\ UNCHANGED <<rx_exists, rx_has_sheet, column, rx_row_idx, rules,
                   rule_ids_seen, rules_file>>
    /\ UNCHANGED <<hvars, kvars, dvars, lvars, gvars>>

\* lines 26-33: the workbook has no RuleIDs sheet
RxSheetMissing ==
    /\ rx_pc = "start" /\ rx_exists /\ ~rx_has_sheet
    /\ rx_pc' = "aborted"
    /\ UNCHANGED <<rx_exists, rx_has_sheet, column, rx_row_idx, rules,
                   rule_ids_seen, rules_file>>
    /\ UNCHANGED <<hvars, kvars, dvars, lvars, gvars>>

\* variant: row 1 taken for a header row and skipped
RxOpenSheet_SkipRowOne ==
    /\ rx_pc = "start" /\ rx_exists /\ rx_has_sheet
    /\ rules' = << >>
    /\ rule_ids_seen' = {}
    /\ rx_row_idx' = 2
    /\ rx_pc' = "rows"
    /\ UNCHANGED <<rx_exists, rx_has_sheet, column, rules_file>>
    /\ UNCHANGED <<hvars, kvars, dvars, lvars, gvars>>

\* lines 26-41: open the RuleIDs sheet, start with no rule
RxOpenSheet ==
    /\ rx_pc = "start" /\ rx_exists /\ rx_has_sheet
    /\ rules' = << >>
    /\ rule_ids_seen' = {}
    /\ rx_row_idx' = 1
    /\ rx_pc' = "rows"
    /\ UNCHANGED <<rx_exists, rx_has_sheet, column, rules_file>>
    /\ UNCHANGED <<hvars, kvars, dvars, lvars, gvars>>

\* lines 43-97: one iteration of range(1, sheet.max_row + 1)
RxRow ==
    /\ rx_pc = "rows" /\ rx_row_idx <= Len(column)
    /\ LET st == ProcessCell([rules |-> rules, seen |-> rule_ids_seen],
                             column[rx_row_idx])
       IN  /\ rules' = st.rules
           /\ rule_ids_seen' = st.seen
    /\ rx_row_idx' = rx_row_idx + 1
    /\ UNCHANGED <<rx_exists, rx_has_sheet, column, rx_pc, rules_file>>
    /\ UNCHANGED <<hvars, kvars, dvars, lvars, gvars>>

\* lines 109-121: json.dump(output_data, f)
RxSave ==
    /\ rx_pc = "rows" /\ rx_row_idx > Len(column)
    /\ rules_file' = Some(OutputData(rules))
    /\ rx_pc' = "done"
    /\ UNCHANGED <<rx_exists, rx_has_sheet, column, rx_row_idx, rules,
                   rule_ids_seen>>
    /\ UNCHANGED <<hvars, kvars, dvars, lvars, gvars>>

NextRules ==
    \/ RxTemplateMissing
    \/ RxSheetMissing
    \/ RxOpenSheet
    \/ RxRow
    \/ RxSave

SpecRules == InitRules /\ [][NextRules]_vars

---------------------------------------------------------------------------
(* analyze_compliance_strategy.py *)

\* a PDF file: whether it exists, whether PyPDF2.PdfReader can read it, and
\* for each page the text extract_text() returns (None when it raises)
MissingDoc == [exists |-> FALSE, opens |-> FALSE, pages |-> << >>]
CorruptDoc == [exists |-> TRUE, opens |-> FALSE, pages |-> << >>]
MkDoc(pages) == [exists |-> TRUE, opens |-> TRUE, pages |-> pages]

\* lines 25-27, until a page raises
RECURSIVE ReadPages(_, _)
ReadPages(text, pages) ==
    IF pages = << >> THEN text
    ELSE IF IsNone(Head(pages)) THEN text
    ELSE ReadPages(text \o Val(Head(pages)) \o <<"\n", "\n">>, Tail(pages))

\* extract_pdf_text: the exception is caught and the text read so far returned
ExtractPdfText(doc) ==
    IF doc.opens THEN ReadPages(<< >>, doc.pages) ELSE << >>

HighRiskKeywords == { <<"h","i","g","h"," ","r","i","s","k">>,
                    <<"c","r","i","t","i","c","a","l">>,
                    <<"p","r","i","o","r","i","t","y">> }
SupplyKeywords == { <<"c","a","t","e","g","o","r","y">>,
                  <<"t","i","e","r">>,
                  <<"s","u","p","p","l","i","e","r">> }
RiskFactorKeywords == { <<"r","i","s","k"," ","f","a","c","t","o","r">>,
                      <<"r","i","s","k"," ","l","e","v","e","l">> }

HighRiskMin == 20
HighRiskMax == 200
CategoryMin == 15
CategoryMax == 150
MaxEntries == 10

\* variant: priorities without the two buckets no line is added to
EmptyPriorities_ThreeBuckets ==
    [high_risk_areas |-> << >>, supply_categories |-> << >>,
     risk_factors |-> << >>]

\* lines 35-41
EmptyPriorities ==
    [high_risk_areas |-> << >>, enforcement_focus |-> << >>,
     supply_categories |-> << >>, key_metrics |-> << >>,
     risk_factors |-> << >>]

\* any(keyword in line_lower for keyword in [...])
HasAny(line_lower, keywords) == \E keyword \in keywords : Contains(line_lower, keyword)

\* variant: the bounds taken as inclusive
InLength_Inclusive(line, lo, hi) == Len(Strip(line)) >= lo /\ Len(Strip(line)) <= hi

\* len(line.strip()) > lo and len(line.strip()) < hi
InLength(line, lo, hi) == Len(Strip(line)) > lo /\ Len(Strip(line)) < hi

\* variant: the line appended as it is
Entry_Raw(line) == line

\* line.strip(), as appended
Entry(line) == Strip(line)

\* variant: the three tests chained with elif
ScanLine_FirstMatch(pr, line) ==
    LET line_lower == Lower(line)
    IN  IF HasAny(line_lower, HighRiskKeywords) /\ InLength(line, HighRiskMin, HighRiskMax)
        THEN [pr EXCEPT !.high_risk_areas = Append(@, Entry(line))]
        ELSE IF HasAny(line_lower, SupplyKeywords) /\ InLength(line, CategoryMin, CategoryMax)
        THEN [pr EXCEPT !.supply_categories = Append(@, Entry(line))]
        ELSE IF HasAny(line_lower, RiskFactorKeywords) /\ InLength(line, CategoryMin, CategoryMax)
        THEN [pr EXCEPT !.risk_factors = Append(@, Entry(line))]
        ELSE pr

\* variant: a high-risk line also recorded as an enforcement focus
ScanLine_FillsFocus(pr, line) ==
    LET line_lower == Lower(line)
        p1 == IF HasAny(line_lower, HighRiskKeywords)
                 /\ InLength(line, HighRiskMin, HighRiskMax)
              THEN [pr EXCEPT !.high_risk_areas = Append(@, Entry(line)),
                              !.enforcement_focus = Append(@, Entry(line))]
              ELSE pr
        p2 == IF HasAny(line_lower, SupplyKeywords)
                 /\ InLength(line, CategoryMin, CategoryMax)
              THEN [p1 EXCEPT !.supply_categories = Append(@, Entry(line))]
              ELSE p1
    IN  IF HasAny(line_lower, RiskFactorKeywords)
           /\ InLength(line, CategoryMin, CategoryMax)
        THEN [p2 EXCEPT !.risk_factors = Append(@, Entry(line))]
        ELSE p2

\* lines 52-67: the loop body
ScanLine(pr, line) ==
    LET line_lower == Lower(line)
        p1 == IF HasAny(line_lower, HighRiskKeywords)
                 /\ InLength(line, HighRiskMin, HighRiskMax)
              THEN [pr EXCEPT !.high_risk_areas = Append(@, Entry(line))]
              ELSE pr
        p2 == IF HasAny(line_lower, SupplyKeywords)
                 /\ InLength(line, CategoryMin, CategoryMax)
              THEN [p1 EXCEPT !.supply_categories = Append(@, Entry(line))]
              ELSE p1
    IN  IF HasAny(line_lower, RiskFactorKeywords)
           /\ InLength(line, CategoryMin, CategoryMax)
        THEN [p2 EXCEPT !.risk_factors = Append(@, Entry(line))]
        ELSE p2

\* lines 51-67: the loop over the lines
RECURSIVE ScanLines(_, _)
ScanLines(pr, lines) ==
    IF lines = << >> THEN pr
    ELSE ScanLines(ScanLine(pr, Head(lines)), Tail(lines))

\* lines 35-67: priorities as they stand before the duplicates are removed
Candidates(text) == ScanLines(EmptyPriorities, Split(text, "\n"))

Range(list) == {list[i] : i \in 1..Len(list)}

\* the entries of a list, each with the number of times it occurs
ListBag(list) ==
    [e \in Range(list) |-> Cardinality({i \in 1..Len(list) : list[i] = e})]

\* variant: the first 10 entries kept without removing duplicates
CapChoices_NoDedup(list) == {ListBag(SubSeq(list, 1, Min(MaxEntries, Len(list))))}

\* variant: duplicates removed but every entry kept
CapChoices_NoCap(list) == {SetToBag(Range(list))}

\* variant: 5 entries kept
CapChoices_Five(list) ==
    {SetToBag(S) : S \in {X \in SUBSET Range(list) :
                            Cardinality(X) = Min(5, Cardinality(Range(list)))}}

\* list(set(list))[:10].  A set is iterated in an order that depends on the
\* hashes of its strings, which change from one interpreter run to the next:
\* any 10 of the distinct entries may be the ones kept, in any order.  The
\* result is given as the bag of the entries kept.
CapChoices(list) ==
    {SetToBag(S) : S \in {X \in SUBSET Range(list) :
                            Cardinality(X) = Min(MaxEntries, Cardinality(Range(list)))}}

\* lines 70-71: what the loop over the keys may leave in priorities
RECURSIVE PossiblePriorities(_, _)
PossiblePriorities(cands, keys) ==
    IF keys = {} THEN {<< >>}
    ELSE LET key == CHOOSE k \in keys : TRUE
         IN  {(key :> kept) @@ rest :
                 kept \in CapChoices(cands[key]),
                 rest \in PossiblePriorities(cands, keys \ {key})}

\* lines 120-126
StrategyResult(name, doc, text, priorities) ==
    [document_name |-> name,
     page_count |-> Len(doc.pages),
     text_length |-> Len(text),
     priorities |-> priorities]

\* variant: every entry of STRATEGIES counted
StrategyOutput_CountsAll(results) ==
    [analysis_date |-> "2025-10-05",
     documents_analyzed |-> 2,
     results |-> results]

\* lines 146-150
StrategyOutput(results) ==
    [analysis_date |-> "2025-10-05",
     documents_analyzed |-> Len(results),
     results |-> results]

---------------------------------------------------------------------------
(* Documents the strategy analyser is run on *)

MaxLines == 2
MaxBlock == 15

Pad(text, n) == text \o [i \in 1..(n - Len(text)) |-> "x"]

L_empty == << >>
L_plain == <<"n","o"," ","k","e","y","w","o","r","d"," ","i","n"," ","t","h","i","s"," ","l","i","n","e"," ","a","t"," ","a","l","l">>
L_hr20 == Pad(<<"C","r","i","t","i","c","a","l",":"," ">>, HighRiskMin)
L_hr21 == Pad(<<"C","r","i","t","i","c","a","l",":"," ">>, HighRiskMin + 1)
L_hr21sp == <<" ">> \o L_hr21 \o <<" ", "\t">>
L_hr20sp == <<" ", " ">> \o L_hr20
L_hr199 == Pad(<<"h","i","g","h"," ","r","i","s","k"," ">>, HighRiskMax - 1)
L_hr200 == Pad(<<"h","i","g","h"," ","r","i","s","k"," ">>, HighRiskMax)
L_cat15 == <<"t","i","e","r"," ","r","i","s","k"," ","l","e","v","e","l">>
L_cat16 == Pad(<<"t","i","e","r"," ","r","i","s","k"," ","l","e","v","e","l">>, CategoryMin + 1)
L_cat149 == Pad(<<"t","i","e","r"," ","r","i","s","k"," ","l","e","v","e","l">>, CategoryMax - 1)
L_cat150 == Pad(<<"t","i","e","r"," ","r","i","s","k"," ","l","e","v","e","l">>, CategoryMax)
L_supply == <<"S","u","p","p","l","i","e","r"," ","l","i","s","t"," ","v","2">>
L_factor == <<"r","i","s","k"," ","f","a","c","t","o","r",":"," ","a","g","e">>
L_all == <<"P","R","I","O","R","I","T","Y"," ","t","i","e","r",","," ","R","i","s","k"," ","L","e","v","e","l">>

KsLineSet == {L_empty, L_plain, L_hr20, L_hr21, L_hr21sp, L_hr20sp, L_hr199,
              L_hr200, L_cat15, L_cat16, L_cat149, L_cat150, L_supply,
              L_factor, L_all}

\* a page whose text is the given lines
PageOf(lines) == Some(Join(<<"\n">>, lines))

BlockLine(k) == <<"c","r","i","t","i","c","a","l"," ","p","r","i","o","r","i","t","y"," ","i","t","e","m"," ">> \o DecStr(k)
Block(m) == [k \in 1..m |-> BlockLine(k)]

\* one-page documents of up to MaxLines lines
LineDocs == {MkDoc(<<PageOf(ls)>>) : ls \in SeqsUpTo(KsLineSet, MaxLines)}

\* one-page documents of up to MaxBlock distinct high-risk lines, the first
\* of them possibly repeated with surrounding whitespace
BlockDocs ==
    {MkDoc(<<PageOf(pre \o Block(m))>>) :
        pre \in {<< >>, << <<" ">> \o BlockLine(1) \o <<"\t">> >>},
        m \in 1..MaxBlock}

\* documents of several pages, some of which cannot be extracted
PageDocs ==
    {MkDoc(<< >>), MkDoc(<<None>>),
     MkDoc(<<PageOf(<<L_hr21>>), PageOf(<<L_all, L_hr21>>)>>),
     MkDoc(<<PageOf(<<L_hr21>>), None>>),
     MkDoc(<<PageOf(<<L_hr21>>), None, PageOf(<<L_all>>)>>)}

KsDocs == LineDocs \cup BlockDocs \cup PageDocs \cup {MissingDoc, CorruptDoc}

KsSmallDocs ==
    {MissingDoc, CorruptDoc, MkDoc(<<PageOf(<<L_all>>)>>),
     MkDoc(<<PageOf(<<L_hr21>>), None>>)}

KsSecondDocs == KsSmallDocs \cup {MkDoc(<<PageOf(<<l>>)>>) : l \in KsLineSet}

\* the files of the two entries of STRATEGIES
KsBatches ==
    {<<d, MissingDoc>> : d \in KsDocs}
    \cup {<<f, d>> : f \in KsSmallDocs, d \in KsSecondDocs}

---------------------------------------------------------------------------
(* main of analyze_compliance_strategy.py as a state machine *)

InitStrategy ==
    /\ ks_docs \in KsBatches
    /\ ks_pc = "loop"
    /\ ks_idx = 1
    /\ ks_text = << >>
    /\ ks_cands = << >>
    /\ ks_results = << >>
    /\ ks_file = None
    /\ HeaderIdle
    /\ RulesIdle
    /\ DwspIdle
    /\ DownloadIdle
    /\ RegulatoryIdle

\* lines 138-141 with 82-86: the file is missing, analyze_strategy returns
\* None and nothing is appended
KsMissing ==
    /\ ks_pc = "loop" /\ ks_idx <= Len(ks_docs)
    /\ ~ks_docs[ks_idx].exists
    /\ ks_idx' = ks_idx + 1
    /\ UNCHANGED <<ks_docs, ks_pc, ks_text, ks_cands, ks_results, ks_file>>
    /\ UNCHANGED <<hvars, rvars, dvars, lvars, gvars>>

\* lines 88-94: text = extract_pdf_text(pdf_path)
KsExtractText ==
    /\ ks_pc = "loop" /\ ks_idx <= Len(ks_docs)
    /\ ks_docs[ks_idx].exists
    /\ ks_text' = ExtractPdfText(ks_docs[ks_idx])
    /\ ks_pc' = "pages"
    /\ UNCHANGED <<ks_docs, ks_idx, ks_cands, ks_results, ks_file>>
    /\ UNCHANGED <<hvars, rvars, dvars, lvars, gvars>>

\* lines 97-99: PdfReader raises on a file it cannot read; nothing catches it
KsCrash ==
    /\ ks_pc = "pages" /\ ~ks_docs[ks_idx].opens
    /\ ks_pc' = "crashed"
    /\ UNCHANGED <<ks_docs, ks_idx, ks_text, ks_cands, ks_results, ks_file>>
    /\ UNCHANGED <<hvars, rvars, dvars, lvars, gvars>>

\* lines 97-106 with 35-67: page count, then the scan of extract_priorities
KsScan ==
    /\ ks_pc = "pages" /\ ks_docs[ks_idx].opens
    /\ ks_cands' = Candidates(ks_text)
    /\ ks_pc' = "dedup"
    /\ UNCHANGED <<ks_docs, ks_idx, ks_text, ks_results, ks_file>>
    /\ UNCHANGED <<hvars, rvars, dvars, lvars, gvars>>

\* lines 70-73, 120-126 and 140-141: duplicates removed, buckets cut to 10,
\* the result record returned and appended
KsDedup ==
    /\ ks_pc = "dedup"
    /\ \E priorities \in PossiblePriorities(ks_cands, DOMAIN ks_cands) :
          ks_results' = Append(ks_results,
                               StrategyResult(ks_idx, ks_docs[ks_idx], ks_text,
                                              priorities))
    /\ ks_idx' = ks_idx + 1
    /\ ks_pc' = "loop"
    /\ UNCHANGED <<ks_docs, ks_text, ks_cands, ks_file>>
    /\ UNCHANGED <<hvars, rvars, dvars, lvars, gvars>>

\* lines 144-150: json.dump
KsSave ==
    /\ ks_pc = "loop" /\ ks_idx > Len(ks_docs)
    /\ ks_file' = Some(StrategyOutput(ks_results))
    /\ ks_pc' = "done"
    /\ UNCHANGED <<ks_docs, ks_idx, ks_text, ks_cands, ks_results>>
    /\ UNCHANGED <<hvars, rvars, dvars, lvars, gvars>>

NextStrategy ==
    \/ KsMissing
    \/ KsExtractText
    \/ KsCrash
    \/ KsScan
    \/ KsDedup
    \/ KsSave

SpecStrategy == InitStrategy /\ [][NextStrategy]_vars

---------------------------------------------------------------------------
(* analyze_dwsp_templates.py *)

\* lines 36-109: title and keywords of the 12 elements, in dict order
DwspElements ==
    [
     element_1 |->
        [title |-> "Description of the drinking water supply",
         keywords |-> <<<<"d","e","s","c","r","i","p","t","i","o","n">>,
                       <<"s","u","p","p","l","y"," ","d","e","t","a","i","l","s">>,
                       <<"w","a","t","e","r"," ","s","u","p","p","l","y">>>>],
     element_2 |->
        [title |-> "Hazardous events and hazards",
         keywords |-> <<<<"h","a","z","a","r","d">>,
                       <<"h","a","z","a","r","d","o","u","s"," ","e","v","e","n","t">>,
                       <<"r","i","s","k">>>>],
     element_3 |->
        [title |-> "Preventive measures for hazards",
         keywords |-> <<<<"p","r","e","v","e","n","t","i","v","e">>,
                       <<"c","o","n","t","r","o","l"," ","m","e","a","s","u","r","e">>,
                       <<"b","a","r","r","i","e","r">>>>],
     element_4 |->
        [title |-> "Operational monitoring",
         keywords |-> <<<<"o","p","e","r","a","t","i","o","n","a","l"," ","m","o","n","i","t","o","r">>,
                       <<"d","a","i","l","y"," ","c","h","e","c","k">>,
                       <<"r","o","u","t","i","n","e">>>>],
     element_5 |->
        [title |-> "Verification monitoring",
         keywords |-> <<<<"v","e","r","i","f","i","c","a","t","i","o","n">>,
                       <<"c","o","m","p","l","i","a","n","c","e"," ","c","h","e","c","k">>,
                       <<"t","e","s","t","i","n","g">>>>],
     element_6 |->
        [title |-> "Corrective action",
         keywords |-> <<<<"c","o","r","r","e","c","t","i","v","e"," ","a","c","t","i","o","n">>,
                       <<"r","e","s","p","o","n","s","e">>,
                       <<"n","o","n","-","c","o","m","p","l","i","a","n","c","e">>>>],
     element_7 |->
        [title |-> "Incident and emergency response",
         keywords |-> <<<<"i","n","c","i","d","e","n","t">>,
                       <<"e","m","e","r","g","e","n","c","y">>,
                       <<"c","o","n","t","i","n","g","e","n","c","y">>>>],
     element_8 |->
        [title |-> "Management of the drinking water supply",
         keywords |-> <<<<"m","a","n","a","g","e","m","e","n","t">>,
                       <<"r","e","s","p","o","n","s","i","b","i","l","i","t","y">>,
                       <<"r","o","l","e","s">>>>],
     element_9 |->
        [title |-> "Documentation and communication",
         keywords |-> <<<<"d","o","c","u","m","e","n","t","a","t","i","o","n">>,
                       <<"c","o","m","m","u","n","i","c","a","t","i","o","n">>,
                       <<"r","e","c","o","r","d">>>>],
     element_10 |->
        [title |-> "Improvement planning",
         keywords |-> <<<<"i","m","p","r","o","v","e","m","e","n","t">>,
                       <<"u","p","g","r","a","d","e">>,
                       <<"f","u","t","u","r","e">>>>],
     element_11 |->
        [title |-> "Supply details",
         keywords |-> <<<<"p","o","p","u","l","a","t","i","o","n">>,
                       <<"s","o","u","r","c","e">>,
                       <<"t","r","e","a","t","m","e","n","t"," ","p","r","o","c","e","s","s">>>>],
     element_12 |->
        [title |-> "Review and approval",
         keywords |-> <<<<"r","e","v","i","e","w">>,
                       <<"a","p","p","r","o","v","a","l">>,
                       <<"s","i","g","n","-","o","f","f">>>>]]

\* lines 36-109: found and sections of every element, as created by each call
FreshElements == [k \in DOMAIN DwspElements |-> [found |-> FALSE, sections |-> << >>]]

\* variant: the line appended for every keyword it contains
MatchKeywords_NoMembershipTest(elem_data, keywords, line_lower, stripped) ==
    LET hits == {i \in 1..Len(keywords) :
                    Contains(line_lower, keywords[i]) /\ Len(stripped) > 0}
    IN  IF hits = {} THEN elem_data
        ELSE [found |-> TRUE,
              sections |-> elem_data.sections \o [i \in 1..Cardinality(hits) |-> stripped]]

\* lines 116-120: the loop over the keywords of one element, for one line
RECURSIVE MatchKeywords(_, _, _, _)
MatchKeywords(elem_data, keywords, line_lower, stripped) ==
    IF keywords = << >> THEN elem_data
    ELSE MatchKeywords(
            IF Contains(line_lower, Head(keywords)) /\ Len(stripped) > 0
            THEN [found |-> TRUE,
                  sections |-> IF \E i \in 1..Len(elem_data.sections) :
                                      elem_data.sections[i] = stripped
                               THEN elem_data.sections
                               ELSE Append(elem_data.sections, stripped)]
            ELSE elem_data,
            Tail(keywords), line_lower, stripped)

\* lines 114-120: the body of the loop over the lines
SearchLine(elements, line) ==
    [k \in DOMAIN elements |->
        MatchKeywords(elements[k], DwspElements[k].keywords, Lower(line), Strip(line))]

\* variant: every element counted
FoundCount_All(elements) == Cardinality(DOMAIN elements)

\* line 158
FoundCount(elements) == Cardinality({k \in DOMAIN elements : elements[k].found})

\* lines 171-178
TemplateResult(name, doc, text, elements) ==
    [template_name |-> name,
     page_count |-> Len(doc.pages),
     text_length |-> Len(text),
     elements |-> elements,
     elements_found |-> FoundCount(elements)]

\* lines 198-202
TemplateOutput(results) ==
    [analysis_date |-> "2025-10-05",
     templates_analyzed |-> Len(results),
     results |-> results]

---------------------------------------------------------------------------
(* Documents the DWSP analyser is run on *)

MaxDwLines == 3

D_empty == << >>
D_blank == <<" ", "\t">>
D_plain == <<"T","a","b","l","e"," ","o","f"," ","c","o","n","t","e","n","t","s">>
D_haz == <<"H","a","z","a","r","d","o","u","s"," ","E","v","e","n","t"," ","l","o","g">>
D_hazsp == <<" ", " ">> \o D_haz \o <<"\t">>
D_multi == <<"R","i","s","k"," ","r","e","s","p","o","n","s","e"," ","r","o","l","e","s">>
D_supply == <<" ","W","a","t","e","r"," ","S","u","p","p","l","y"," ","d","e","s","c","r","i","p","t","i","o","n">>
D_review == <<"R","e","v","i","e","w"," ","a","n","d"," ","s","i","g","n","-","o","f","f">>

DwLineSet == {D_empty, D_blank, D_plain, D_haz, D_hazsp, D_multi, D_supply, D_review}

\* one-page documents of up to MaxDwLines lines
DwLineDocs == {MkDoc(<<PageOf(ls)>>) : ls \in SeqsUpTo(DwLineSet, MaxDwLines)}

\* documents of several pages, some of which cannot be extracted
DwPageDocs ==
    {MkDoc(<< >>), MkDoc(<<None>>),
     MkDoc(<<PageOf(<<D_haz>>), PageOf(<<D_multi, D_hazsp>>)>>),
     MkDoc(<<PageOf(<<D_haz>>), None>>)}

DwDocs == DwLineDocs \cup DwPageDocs \cup {MissingDoc, CorruptDoc}

DwSmallDocs ==
    {MissingDoc, CorruptDoc, MkDoc(<<PageOf(<<D_multi>>)>>),
     MkDoc(<<PageOf(<<D_haz>>), None>>)}

DwSecondDocs == DwSmallDocs \cup {MkDoc(<<PageOf(<<l>>)>>) : l \in DwLineSet}

\* the files of the two entries of TEMPLATES
DwBatches ==
    {<<d, MissingDoc>> : d \in DwDocs}
    \cup {<<f, d>> : f \in DwSmallDocs, d \in DwSecondDocs}

---------------------------------------------------------------------------
(* main of analyze_dwsp_templates.py as a state machine *)

InitDwsp ==
    /\ dw_docs \in DwBatches
    /\ dw_pc = "loop"
    /\ dw_idx = 1
    /\ dw_text = << >>
    /\ dw_lines = << >>
    /\ dw_line_idx = 0
    /\ dw_elements = << >>
    /\ dw_results = << >>
    /\ dw_file = None
    /\ HeaderIdle
    /\ RulesIdle
    /\ StrategyIdle
    /\ DownloadIdle
    /\ RegulatoryIdle

\* lines 190-193 with 131-135: the file is missing, analyze_template returns
\* None and nothing is appended
DwMissing ==
    /\ dw_pc = "loop" /\ dw_idx <= Len(dw_docs)
    /\ ~dw_docs[dw_idx].exists
    /\ dw_idx' = dw_idx + 1
    /\ UNCHANGED <<dw_docs, dw_pc, dw_text, dw_lines, dw_line_idx, dw_elements,
                   dw_results, dw_file>>
    /\ UNCHANGED <<hvars, rvars, kvars, lvars, gvars>>

\* lines 137-143: text = extract_pdf_text(pdf_path), the same function as in
\* analyze_compliance_strategy.py (lines 19-30 of both files)
DwExtractText ==
    /\ dw_pc = "loop" /\ dw_idx <= Len(dw_docs)
    /\ dw_docs[dw_idx].exists
    /\ dw_text' = ExtractPdfText(dw_docs[dw_idx])
    /\ dw_pc' = "pages"
    /\ UNCHANGED <<dw_docs, dw_idx, dw_lines, dw_line_idx, dw_elements,
                   dw_results, dw_file>>
    /\ UNCHANGED <<hvars, rvars, kvars, lvars, gvars>>

\* lines 146-148: PdfReader raises on a file it cannot read; nothing catches it
DwCrash ==
    /\ dw_pc = "pages" /\ ~dw_docs[dw_idx].opens
    /\ dw_pc' = "crashed"
    /\ UNCHANGED <<dw_docs, dw_idx, dw_text, dw_lines, dw_line_idx, dw_elements,
                   dw_results, dw_file>>
    /\ UNCHANGED <<hvars, rvars, kvars, lvars, gvars>>

\* variant: elements kept from the previous call
DwBegin_KeepElements ==
    /\ dw_pc = "pages" /\ dw_docs[dw_idx].opens
    /\ dw_elements' = IF dw_elements = << >> THEN FreshElements ELSE dw_elements
    /\ dw_lines' = Split(dw_text, "\n")
    /\ dw_line_idx' = 1
    /\ dw_pc' = "lines"
    /\ UNCHANGED <<dw_docs, dw_idx, dw_text, dw_results, dw_file>>
    /\ UNCHANGED <<hvars, rvars, kvars, lvars, gvars>>

\* lines 146-155 with 36-112: page count, then find_dwsp_elements creates
\* elements and splits the text
DwBegin ==
    /\ dw_pc = "pages" /\ dw_docs[dw_idx].opens
    /\ dw_elements' = FreshElements
    /\ dw_lines' = Split(dw_text, "\n")
    /\ dw_line_idx' = 1
    /\ dw_pc' = "lines"
    /\ UNCHANGED <<dw_docs, dw_idx, dw_text, dw_results, dw_file>>
    /\ UNCHANGED <<hvars, rvars, kvars, lvars, gvars>>

\* lines 113-120: one iteration of the loop over the lines
DwLine ==
    /\ dw_pc = "lines" /\ dw_line_idx <= Len(dw_lines)
    /\ dw_elements' = SearchLine(dw_elements, dw_lines[dw_line_idx])
    /\ dw_line_idx' = dw_line_idx + 1
    /\ UNCHANGED <<dw_docs, dw_pc, dw_idx, dw_text, dw_lines, dw_results, dw_file>>
    /\ UNCHANGED <<hvars, rvars, kvars, lvars, gvars>>

\* lines 122, 157-178 and 192-193: elements returned, the result record
\* built, returned and appended
DwReturn ==
    /\ dw_pc = "lines" /\ dw_line_idx > Len(dw_lines)
    /\ dw_results' = Append(dw_results,
                            TemplateResult(dw_idx, dw_docs[dw_idx], dw_text,
                                           dw_elements))
    /\ dw_idx' = dw_idx + 1
    /\ dw_pc' = "loop"
    /\ UNCHANGED <<dw_docs, dw_text, dw_lines, dw_line_idx, dw_elements, dw_file>>
    /\ UNCHANGED <<hvars, rvars, kvars, lvars, gvars>>

\* lines 195-202: json.dump
DwSave ==
    /\ dw_pc = "loop" /\ dw_idx > Len(dw_docs)
    /\ dw_file' = Some(TemplateOutput(dw_results))
    /\ dw_pc' = "done"
    /\ UNCHANGED <<dw_docs, dw_idx, dw_text, dw_lines, dw_line_idx, dw_elements,
                   dw_results>>
    /\ UNCHANGED <<hvars, rvars, kvars, lvars, gvars>>

NextDwsp ==
    \/ DwMissing
    \/ DwExtractText
    \/ DwCrash
    \/ DwBegin
    \/ DwLine
    \/ DwReturn
    \/ DwSave

SpecDwsp == InitDwsp /\ [][NextDwsp]_vars

---------------------------------------------------------------------------
(* The download scripts: one HTTP GET per entry of a table of URLs *)

\* the keys of additional_docs, in the order of the dictionary
AdditionalDocs ==
    << "DWQAR_Reporting_Template.xlsx",
       "DWQAR_Assurance_Rules_Template.xlsx",
       "Monitoring_Water_Quality_Supply_Summary_Table.pdf",
       "Rules_Reporting_Webform_Hinekorako_Guide.pdf",
       "DWQAR_Guidance_for_Small_Supplies.pdf",
       "DWQAR_Reporting_Guidelines_Draft.pdf" >>

\* the keys of pdf_links, in the order of the dictionary
PdfLinks ==
    << "Compliance_Strategy_2025-2028.pdf",
       "Compliance_Strategy_2022-2025.pdf",
       "DWSP_Template_Small_26-100.pdf",
       "DWSP_Template_Medium_101-500.pdf",
       "DWSP_Template_Temporary.pdf",
       "Quick_Guide_to_Uploading_DWSP.pdf",
       "DWQAR_Reporting_Guidelines.pdf",
       "Drinking_Water_Standards_Draft_2021.pdf",
       "Water_Services_Act_2021.pdf",
       "Drinking_Water_Standards_Regulations_2022.pdf",
       "Acceptable_Solution_Rural_Agricultural.pdf",
       "Acceptable_Solution_Roof_Water.pdf",
       "Acceptable_Solution_Mixed-Use_Rural_2025.pdf" >>

UrlTable(script) == IF script = "additional" THEN AdditionalDocs ELSE PdfLinks

\* response.raise_for_status(): HTTPError for a 4xx or 5xx status, nothing
\* for any other status
RaiseForStatus(status) == status \in 400..599

\* What one call meets.  requests.get either raises (no connection, timeout,
\* too many redirects) or returns the final response, whose status is 200,
\* 304 (a 3xx that requests does not follow), 404 or 503; open() and
\* f.write() either work or raise OSError.
HttpStatuses == {200, 304, 404, 503}
DiskOutcomes == {"ok", "open_fails", "write_fails"}
RequestRaises == [raised |-> TRUE, status |-> 0, disk |-> "ok"]
Outcomes ==
    {RequestRaises}
      \cup {[raised |-> FALSE, status |-> s, disk |-> "ok"] :
              s \in {t \in HttpStatuses : RaiseForStatus(t)}}
      \cup {[raised |-> FALSE, status |-> s, disk |-> d] :
              s \in {t \in HttpStatuses : ~RaiseForStatus(t)}, d \in DiskOutcomes}

\* download_file: the files afterwards and the value returned.  Line 28
\* raises, or line 29 raises, or line 31 raises: the file is untouched.
\* Line 32 raises: the file was opened with "wb" and is left cut short.
\* Otherwise the file holds response.content and True is returned.
DownloadFile(files, name, o) ==
    IF o.raised \/ RaiseForStatus(o.status) \/ o.disk = "open_fails"
    THEN [files |-> files, ok |-> FALSE]
    ELSE IF o.disk = "write_fails"
    THEN [files |-> [files EXCEPT ![name] = Some("cut short")], ok |-> FALSE]
    ELSE [files |-> [files EXCEPT ![name] = Some("response.content")], ok |-> TRUE]

\* download_pdf: the same body; it returns nothing, ok stands for the line
\* printed (SUCCESS or FAILED)
DownloadPdf(files, name, o) ==
    IF o.raised \/ RaiseForStatus(o.status) \/ o.disk = "open_fails"
    THEN [files |-> files, ok |-> FALSE]
    ELSE IF o.disk = "write_fails"
    THEN [files |-> [files EXCEPT ![name] = Some("cut short")], ok |-> FALSE]
    ELSE [files |-> [files EXCEPT ![name] = Some("response.content")], ok |-> TRUE]

\* the record kept of one call
Attempt(name, o, before, r) ==
    [name |-> name, outcome |-> o, before |-> before, after |-> r.files[name],
     reported |-> IF r.ok THEN "SUCCESS" ELSE "FAILED"]

---------------------------------------------------------------------------
(* Inputs of the download scripts *)

\* attempts of one run that may differ from what the run meets otherwise
MaxDeviations == 1

\* download_dir before the run: empty, or holding every file of the table
InitialFiles(table) ==
    { [n \in Range(table) |-> None], [n \in Range(table) |-> Some("old")] }

---------------------------------------------------------------------------
(* The download scripts as a state machine *)

InitDownload ==
    /\ dl_script \in {"additional", "nz"}
    /\ dl_files \in InitialFiles(UrlTable(dl_script))
    /\ dl_idx = 1
    /\ dl_pc = "loop"
    /\ dl_log = << >>
    /\ dl_default \in Outcomes
    /\ dl_deviations = 0
    /\ success_count = 0
    /\ failed_count = 0
    /\ HeaderIdle
    /\ RulesIdle
    /\ StrategyIdle
    /\ DwspIdle
    /\ RegulatoryIdle

\* variant: the loop left at the first download that fails
DlAdditional_StopOnFailure ==
    /\ dl_script = "additional" /\ dl_pc = "loop"
    /\ dl_idx <= Len(AdditionalDocs)
    /\ \E o \in Outcomes :
          /\ o = dl_default \/ dl_deviations < MaxDeviations
          /\ dl_deviations' = IF o = dl_default THEN dl_deviations
                                                ELSE dl_deviations + 1
          /\ LET name == AdditionalDocs[dl_idx]
                 r == DownloadFile(dl_files, name, o)
             IN  /\ dl_files' = r.files
                 /\ dl_log' = Append(dl_log, Attempt(name, o, dl_files[name], r))
                 /\ success_count' = IF r.ok THEN success_count + 1 ELSE success_count
                 /\ failed_count' = IF r.ok THEN failed_count ELSE failed_count + 1
                 /\ dl_pc' = IF r.ok THEN "loop" ELSE "done"
    /\ dl_idx' = dl_idx + 1
    /\ UNCHANGED <<dl_script, dl_default>>
    /\ UNCHANGED <<hvars, rvars, kvars, dvars, gvars>>

\* download_additional_docs lines 50-55: one iteration of the loop over
\* additional_docs.items()
DlAdditional ==
    /\ dl_script = "additional" /\ dl_pc = "loop"
    /\ dl_idx <= Len(AdditionalDocs)
    /\ \E o \in Outcomes :
          /\ o = dl_default \/ dl_deviations < MaxDeviations
          /\ dl_deviations' = IF o = dl_default THEN dl_deviations
                                                ELSE dl_deviations + 1
          /\ LET name == AdditionalDocs[dl_idx]
                 r == DownloadFile(dl_files, name, o)
             IN  /\ dl_files' = r.files
                 /\ dl_log' = Append(dl_log, Attempt(name, o, dl_files[name], r))
                 /\ success_count' = IF r.ok THEN success_count + 1 ELSE success_count
                 /\ failed_count' = IF r.ok THEN failed_count ELSE failed_count + 1
    /\ dl_idx' = dl_idx + 1
    /\ UNCHANGED <<dl_script, dl_pc, dl_default>>
    /\ UNCHANGED <<hvars, rvars, kvars, dvars, gvars>>

\* download_nz_water_docs lines 50-51: one iteration of the loop over
\* pdf_links.items(); the script keeps no count
DlPdf ==
    /\ dl_script = "nz" /\ dl_pc = "loop"
    /\ dl_idx <= Len(PdfLinks)
    /\ \E o \in Outcomes :
          /\ o = dl_default \/ dl_deviations < MaxDeviations
          /\ dl_deviations' = IF o = dl_default THEN dl_deviations
                                                ELSE dl_deviations + 1
          /\ LET name == PdfLinks[dl_idx]
                 r == DownloadPdf(dl_files, name, o)
             IN  /\ dl_files' = r.files
                 /\ dl_log' = Append(dl_log, Attempt(name, o, dl_files[name], r))
    /\ dl_idx' = dl_idx + 1
    /\ UNCHANGED <<dl_script, dl_pc, dl_default, success_count, failed_count>>
    /\ UNCHANGED <<hvars, rvars, kvars, dvars, gvars>>

\* the loop is over: the summary is printed
DlSummary ==
    /\ dl_pc = "loop"
    /\ dl_idx > Len(UrlTable(dl_script))
    /\ dl_pc' = "done"
    /\ UNCHANGED <<dl_script, dl_files, dl_idx, dl_log, dl_default,
                   dl_deviations, success_count, failed_count>>
    /\ UNCHANGED <<hvars, rvars, kvars, dvars, gvars>>

NextDownload ==
    \/ DlAdditional
    \/ DlPdf
    \/ DlSummary

SpecDownload == InitDownload /\ [][NextDownload]_vars

---------------------------------------------------------------------------
(* analyze_regulatory_docs: the verification gate *)

\* CRITICAL_DOCS: the categories and their documents, in the order of the
\* dictionary
CriticalDocs ==
    << [category |-> "excel_templates",
        docs |-> << "DWQAR_Reporting_Template.xlsx",
                    "DWQAR_Assurance_Rules_Template.xlsx" >>],
       [category |-> "dwsp_templates",
        docs |-> << "DWSP_Template_Small_26-100.pdf",
                    "DWSP_Template_Medium_101-500.pdf" >>],
       [category |-> "compliance_strategies",
        docs |-> << "Compliance_Strategy_2025-2028.pdf",
                    "Compliance_Strategy_2022-2025.pdf" >>],
       [category |-> "reporting_guidelines",
        docs |-> << "DWQAR_Reporting_Guidelines.pdf",
                    "DWQAR_Reporting_Guidelines_Draft.pdf",
                    "DWQAR_Guidance_for_Small_Supplies.pdf" >>],
       [category |-> "platform_guides",
        docs |-> << "Quick_Guide_to_Uploading_DWSP.pdf",
                    "Rules_Reporting_Webform_Hinekorako_Guide.pdf" >>],
       [category |-> "standards",
        docs |-> << "Drinking_Water_Standards_Draft_2021.pdf",
                    "Monitoring_Water_Quality_Supply_Summary_Table.pdf" >>],
       [category |-> "acceptable_solutions",
        docs |-> << "Acceptable_Solution_Rural_Agricultural.pdf",
                    "Acceptable_Solution_Roof_Water.pdf",
                    "Acceptable_Solution_Mixed-Use_Rural_2025.pdf" >>] >>

\* the inner loop of verify_documents over the documents of one category
RECURSIVE VerifyCategory(_, _, _)
VerifyCategory(st, docs, present) ==
    IF docs = << >> THEN st
    ELSE VerifyCategory(
            IF Head(docs) \in present
            THEN [st EXCEPT !.found = Append(@, Head(docs))]
            ELSE [st EXCEPT !.missing = Append(@, Head(docs))],
            Tail(docs), present)

\* the outer loop over CRITICAL_DOCS.items()
RECURSIVE VerifyCategories(_, _, _)
VerifyCategories(st, cats, present) ==
    IF cats = << >> THEN st
    ELSE VerifyCategories(VerifyCategory(st, Head(cats).docs, present),
                          Tail(cats), present)

\* verify_documents: the pair (found, missing) it returns
VerifyDocuments(present) ==
    VerifyCategories([found |-> << >>, missing |-> << >>], CriticalDocs, present)

\* the number of documents main asks for
MinFound == 10

\* variant: ten documents found are not enough
TooFew_TenIncluded(found) == Len(found) <= MinFound

\* main: if len(found) < 10
TooFew(found) == Len(found) < MinFound

\* the files written by generate_phase_1_analysis .. generate_phase_6_analysis
PhaseFiles ==
    << "phase_1_excel_templates.json",
       "phase_2_dwsp_templates.json",
       "phase_3_compliance_strategy.json",
       "phase_4_reporting_guidelines.json",
       "phase_5_standards_monitoring.json",
       "phase_6_acceptable_solutions.json" >>

\* the file written by generate_master_implementation_plan
MasterFile == "MASTER_IMPLEMENTATION_PLAN.json"

---------------------------------------------------------------------------
(* Inputs of analyze_regulatory_docs: which inventoried files exist *)

RECURSIVE DocsOf(_)
DocsOf(cats) ==
    IF cats = << >> THEN {} ELSE Range(Head(cats).docs) \cup DocsOf(Tail(cats))

PresentSets == SUBSET DocsOf(CriticalDocs)

---------------------------------------------------------------------------
(* main of analyze_regulatory_docs as a state machine *)

InitRegulatory ==
    /\ rg_present \in PresentSets
    /\ rg_pc = "start"
    /\ rg_idx = 0
    /\ rg_found = << >>
    /\ rg_missing = << >>
    /\ rg_written = << >>
    /\ HeaderIdle
    /\ RulesIdle
    /\ StrategyIdle
    /\ DwspIdle
    /\ DownloadIdle

\* found, missing = verify_documents()
RgVerify ==
    /\ rg_pc = "start"
    /\ LET r == VerifyDocuments(rg_present)
       IN  /\ rg_found' = r.found
           /\ rg_missing' = r.missing
    /\ rg_pc' = "verified"
    /\ UNCHANGED <<rg_present, rg_idx, rg_written>>
    /\ UNCHANGED <<hvars, rvars, kvars, dvars, lvars>>

\* fewer than ten documents: the warning, and return
RgTooFew ==
    /\ rg_pc = "verified" /\ TooFew(rg_found)
    /\ rg_pc' = "aborted"
    /\ UNCHANGED <<rg_present, rg_idx, rg_found, rg_missing, rg_written>>
    /\ UNCHANGED <<hvars, rvars, kvars, dvars, lvars>>

\* generate_phase_k_analysis, k = 1..6, one after the other
RgPhase ==
    /\ rg_pc = "verified" /\ ~TooFew(rg_found)
    /\ rg_idx < Len(PhaseFiles)
    /\ rg_idx' = rg_idx + 1
    /\ rg_written' = Append(rg_written, PhaseFiles[rg_idx + 1])
    /\ UNCHANGED <<rg_present, rg_pc, rg_found, rg_missing>>
    /\ UNCHANGED <<hvars, rvars, kvars, dvars, lvars>>

\* generate_master_implementation_plan, then the closing report
RgMaster ==
    /\ rg_pc = "verified" /\ ~TooFew(rg_found)
    /\ rg_idx = Len(PhaseFiles)
    /\ rg_written' = Append(rg_written, MasterFile)
    /\ rg_pc' = "done"
    /\ UNCHANGED <<rg_present, rg_idx, rg_found, rg_missing>>
    /\ UNCHANGED <<hvars, rvars, kvars, dvars, lvars>>

NextRegulatory ==
    \/ RgVerify
    \/ RgTooFew
    \/ RgPhase
    \/ RgMaster

SpecRegulatory == InitRegulatory /\ [][NextRegulatory]_vars

---------------------------------------------------------------------------
(* The four scripts together: any one of them is run, on the inputs that
   involve more than one sheet, cell or document *)

\* documents with fewer and with more distinct high-risk lines than are kept
BatchBlockDocs == {MkDoc(<<PageOf(Block(6))>>), MkDoc(<<PageOf(Block(11))>>)}

Init ==
    \/ InitHeader /\ Len(wb) = 2
    \/ InitRules /\ Len(column) <= 2
    \/ InitStrategy /\ ks_docs[1] \in KsSmallDocs \cup BatchBlockDocs
    \/ InitDwsp /\ dw_docs[1] \in DwSmallDocs

Next == NextHeader \/ NextRules \/ NextStrategy \/ NextDwsp

Spec == Init /\ [][Next]_vars

---------------------------------------------------------------------------
(* Sheet-Header Locator: what the claims say about a sheet, stated on the  *)
(* cells themselves                                                        *)

\* columns of row r holding a cell that is neither empty nor whitespace-only
NonEmptyCols(sh, r) ==
    {c \in 1..sh.max_column :
        LET v == CellValue(sh, r, c)
        IN  ~IsNone(v) /\ \E i \in 1..Len(Val(v)) : ~IsSpace(Val(v)[i])}

\* some non-empty cell of row r contains a keyword, ignoring case (the
\* keywords hold no blank, so this is containment in the blank-joined text)
RowHasKeyword(sh, r) ==
    \E c \in NonEmptyCols(sh, r), k \in HeaderKeywords :
        Contains(Lower(Val(CellValue(sh, r, c))), k)

Qualifies(sh, r) == Cardinality(NonEmptyCols(sh, r)) > 3 /\ RowHasKeyword(sh, r)

Window(sh) == 1..Min(20, sh.max_row)

QualifyingRows(sh) == {r \in Window(sh) : Qualifies(sh, r)}

Lowest(S) == CHOOSE r \in S : \A q \in S : r <= q

ScanFinished == pc = "scan" /\ row_idx \notin ScanRange(wb[sheet_idx].max_row)

\* C1: whenever some row of the scan window has more than 3 non-empty cells
\* and a keyword, the accepted header is the lowest-indexed such row: at the
\* end of the scan `headers` holds that row's values and data_start_row
\* points just below it, and the recorded sheet analysis says the same.
C1_LowestQualifyingRowAccepted ==
    /\ ScanFinished =>
          LET sh == wb[sheet_idx]
              Q == QualifyingRows(sh)
          IN  Q # {} => /\ headers = RowValues(sh, Lowest(Q))
                        /\ data_start_row = Some(Lowest(Q) + 1)
    /\ \A i \in 1..Len(analysis) :
          LET Q == QualifyingRows(wb[i])
          IN  Q # {} => analysis[i].data_start_row = Some(Lowest(Q) + 1)

\* C1 witness: a recorded sheet whose accepted row comes after an earlier
\* row of the window with more than 3 non-empty cells but no keyword.
C1_Witness ==
    \E i \in 1..Len(analysis) :
        /\ ~IsNone(analysis[i].data_start_row)
        /\ \E r \in Window(wb[i]) :
              /\ r < Val(analysis[i].data_start_row) - 1
              /\ Cardinality(NonEmptyCols(wb[i], r)) > 3
              /\ ~RowHasKeyword(wb[i], r)

\* C2: whenever a header is found, the reported header row is the index of
\* the accepted row and the reported data-start row is that index + 1.
C2_HeaderRowIsAcceptedRow ==
    \A i \in 1..Len(analysis) :
        LET Q == QualifyingRows(wb[i])
        IN  Q # {} => /\ analysis[i].header_row = Some(Lowest(Q))
                      /\ analysis[i].data_start_row = Some(Lowest(Q) + 1)

\* C3: the threshold is strict.  The accepted row (the one just above
\* data_start_row) always has more than 3 non-empty cells, so a row with
\* exactly 3 is never accepted, keyword or not; a row of the window with exactly
\* 4 non-empty cells and a keyword is accepted when no earlier row
\* qualifies.  Empty and whitespace-only cells are not counted.
C3_StrictThreshold ==
    \A i \in 1..Len(analysis) :
        LET sh == wb[i]
            dsr == analysis[i].data_start_row
        IN  /\ ~IsNone(dsr) => Cardinality(NonEmptyCols(sh, Val(dsr) - 1)) > 3
            /\ \A r \in Window(sh) :
                  ( /\ Cardinality(NonEmptyCols(sh, r)) = 4
                    /\ RowHasKeyword(sh, r)
                    /\ \A q \in 1..(r - 1) : ~Qualifies(sh, q) )
                  => dsr = Some(r + 1)

\* C3 witness: a row with exactly 3 non-empty cells, a keyword and a
\* whitespace-only cell was passed over, and a row with exactly 4 non-empty
\* cells and a keyword was accepted after it.
C3_Witness ==
    \E i \in 1..Len(analysis) :
        LET sh == wb[i]
            dsr == analysis[i].data_start_row
        IN  /\ ~IsNone(dsr)
            /\ Cardinality(NonEmptyCols(sh, Val(dsr) - 1)) = 4
            /\ \E r \in 1..(Val(dsr) - 2) :
                  /\ Cardinality(NonEmptyCols(sh, r)) = 3
                  /\ RowHasKeyword(sh, r)
                  /\ \E c \in 1..sh.max_column :
                        /\ CellValue(sh, r, c) # None
                        /\ CellValue(sh, r, c) # Some(<< >>)
                        /\ c \notin NonEmptyCols(sh, r)

\* C4: a sheet none of whose first 20 rows qualifies is recorded as
\* headerless (no header row, no data-start row, empty header list), also
\* when a later row qualifies or the sheet has no row or no column; and
\* the run records every sheet and saves the analysis.
C4_HeaderlessSheet ==
    /\ \A i \in 1..Len(analysis) :
          QualifyingRows(wb[i]) = {} =>
            /\ analysis[i].header_row = None
            /\ analysis[i].data_start_row = None
            /\ analysis[i].headers = << >>
    /\ pc = "done" => /\ ~IsNone(output_file)
                      /\ Len(Val(output_file)) = Len(wb)

\* C4 witness: a saved analysis with a headerless sheet whose row 21
\* qualifies.
C4_Witness ==
    /\ pc = "done"
    /\ \E i \in 1..Len(wb) :
          /\ wb[i].max_row > 20
          /\ Qualifies(wb[i], 21)
          /\ Val(output_file)[i].data_start_row = None
          /\ Val(output_file)[i].headers = << >>

\* the k-th smallest element of a set of numbers
RECURSIVE Nth(_, _)
Nth(S, k) == IF k = 1 THEN Lowest(S) ELSE Nth(S \ {Lowest(S)}, k - 1)

\* C5: when a header row is accepted, the header list has exactly one
\* entry per non-empty cell of that row, in column order, with the trimmed
\* text, the ordinals 1..n and both placeholders unresolved.
C5_OneEntryPerHeaderCell ==
    \A i \in 1..Len(analysis) :
        ~IsNone(analysis[i].data_start_row) =>
            LET sh == wb[i]
                r == Val(analysis[i].data_start_row) - 1
                cols == NonEmptyCols(sh, r)
                hd == analysis[i].headers
            IN  /\ Len(hd) = Cardinality(cols)
                /\ \A k \in 1..Len(hd) :
                      /\ hd[k].column_index = k
                      /\ hd[k].header_name = Strip(Val(CellValue(sh, r, Nth(cols, k))))
                      /\ hd[k].database_mapping =
                            <<"T","O","_","B","E","_","M","A","P","P","E","D","_">>
                            \o DecStr(k)
                      /\ hd[k].required = <<"U","N","K","N","O","W","N">>

---------------------------------------------------------------------------
(* Rule-Identifier Extractor: what the claims say about a column, stated   *)
(* on the cells themselves                                                 *)

\* the part of the column the loop has gone through
Scanned == 1..(IF rx_pc = "rows" THEN rx_row_idx - 1 ELSE Len(column))

RulesRunning == rx_pc \in {"rows", "done"}

\* rows whose cell holds text with at least one non-whitespace character
NonBlankRows ==
    {i \in Scanned :
        /\ column[i] # None
        /\ \E k \in 1..Len(Val(column[i])) : ~IsSpace(Val(column[i])[k])}

Trimmed(i) == Strip(Val(column[i]))

\* rows holding the first occurrence of their trimmed identifier
FirstOccurrences ==
    {i \in NonBlankRows : \A j \in NonBlankRows : j < i => Trimmed(j) # Trimmed(i)}

\* C6: the records are, in order, the first occurrences of the distinct
\* trimmed non-blank identifiers of the column (case-sensitive), one record
\* each; None, empty and whitespace-only cells give no record.
C6_OneRecordPerDistinctIdInOrder ==
    RulesRunning =>
        /\ Len(rules) = Cardinality(FirstOccurrences)
        /\ \A k \in 1..Len(rules) :
              rules[k].ruleId = Trimmed(Nth(FirstOccurrences, k))

\* C6 witness: a finished run over a column with an identifier repeated
\* (equal only after trimming) and two identifiers that differ only in
\* case, giving two records; the record that comes first is the one that
\* would sort last (lower-case "t" before upper-case "T").
C6_Witness ==
    /\ rx_pc = "done"
    /\ Len(rules) = 2
    /\ Len(column) = 3
    /\ \E i, j \in NonBlankRows : i < j /\ column[i] # column[j]
                                   /\ Trimmed(i) = Trimmed(j)
    /\ Lower(rules[1].ruleId) = Lower(rules[2].ruleId)
    /\ rules[1].ruleId[1] = "t" /\ rules[2].ruleId[1] = "T"

\* the classification table of the claim, in order
PrefixTable ==
    << <<<<"T","1">>, "BACTERIOLOGICAL">>, <<<<"T","2">>, "CHEMICAL">>,
       <<<<"T","3">>, "PROTOZOA">>, <<<<"T","4">>, "RADIOLOGICAL">>,
       <<<<"M">>, "MONITORING">>, <<<<"V">>, "VERIFICATION">>,
       <<<<"O">>, "OPERATIONAL">> >>

Categories ==
    {"BACTERIOLOGICAL", "CHEMICAL", "PROTOZOA", "RADIOLOGICAL", "MONITORING",
     "VERIFICATION", "OPERATIONAL", "WATER_QUALITY"}

\* first row of the table whose prefix the identifier starts with
TableCategory(id) ==
    LET hits == {n \in 1..Len(PrefixTable) :
                    /\ Len(id) >= Len(PrefixTable[n][1])
                    /\ \A k \in 1..Len(PrefixTable[n][1]) :
                          id[k] = PrefixTable[n][1][k]}
    IN  IF hits = {} THEN "WATER_QUALITY" ELSE PrefixTable[Lowest(hits)][2]

\* C7: the category of every record is the one the ordered prefix table
\* gives for its identifier (first match wins, WATER_QUALITY when none
\* matches), and it is one of the eight categories.
C7_CategoryByPrefixTable ==
    \A k \in 1..Len(rules) :
        /\ rules[k].category = TableCategory(rules[k].ruleId)
        /\ rules[k].category \in Categories

\* C7 witness: T1.8-ecol, T3.2-Crypto and X9.1 extracted in one run as
\* BACTERIOLOGICAL, PROTOZOA and WATER_QUALITY.
C7_Witness ==
    /\ rx_pc = "done"
    /\ \E a, b, c \in 1..Len(rules) :
          /\ rules[a].ruleId = <<"T","1",".","8","-","e","c","o","l">>
          /\ rules[a].category = "BACTERIOLOGICAL"
          /\ rules[b].ruleId = <<"T","3",".","2","-","C","r","y","p","t","o">>
          /\ rules[b].category = "PROTOZOA"
          /\ rules[c].ruleId = <<"X","9",".","1">>
          /\ rules[c].category = "WATER_QUALITY"

Hyphens(id) == {k \in 1..Len(id) : id[k] = "-"}

\* C8: a record's parameter is the lower-cased text after the hyphen when
\* its identifier has exactly one hyphen and is none otherwise; whatever
\* the number of hyphens, every non-blank identifier gone through has its
\* record and the record's category is the one its prefix gives.
C8_ParameterByHyphenCount ==
    /\ \A k \in 1..Len(rules) :
          LET id == rules[k].ruleId
              h == Hyphens(id)
          IN  /\ Cardinality(h) = 1 =>
                    rules[k].parameter =
                        Some(Lower(SubSeq(id, Lowest(h) + 1, Len(id))))
              /\ Cardinality(h) # 1 => rules[k].parameter = None
              /\ rules[k].category = TableCategory(id)
    /\ RulesRunning =>
          \A i \in NonBlankRows : \E k \in 1..Len(rules) : rules[k].ruleId = Trimmed(i)

\* C8 witness: one run with a record without hyphen, one with one hyphen
\* and an upper-case letter after it, and one with two hyphens.
C8_Witness ==
    /\ rx_pc = "done"
    /\ \E a, b, c \in 1..Len(rules) :
          /\ Cardinality(Hyphens(rules[a].ruleId)) = 0
          /\ rules[a].parameter = None
          /\ Cardinality(Hyphens(rules[b].ruleId)) = 1
          /\ rules[b].parameter # None
          /\ Val(rules[b].parameter) # SubSeq(rules[b].ruleId,
                                              Lowest(Hyphens(rules[b].ruleId)) + 1,
                                              Len(rules[b].ruleId))
          /\ Cardinality(Hyphens(rules[c].ruleId)) = 2
          /\ rules[c].parameter = None
          /\ rules[c].category = "MONITORING"

\* the identifiers of a record list, as a column
IdColumn(rs) == [k \in 1..Len(rs) |-> Some(rs[k].ruleId)]

\* C9: at the end of a run, extracting the same column again gives the
\* same records, every identifier of the column has exactly one record
\* however often it is repeated, and extracting the identifiers of the
\* output gives the output again.
C9_DeduplicationIdempotent ==
    rx_pc = "done" =>
        /\ ExtractRules(column) = rules
        /\ \A i \in NonBlankRows :
              Cardinality({k \in 1..Len(rules) : rules[k].ruleId = Trimmed(i)}) = 1
        /\ ExtractRules(IdColumn(rules)) = rules

\* C9 witness: a finished run over a column holding the same identifier
\* three times (one of them with surrounding whitespace), with one record.
C9_Witness ==
    /\ rx_pc = "done"
    /\ Len(column) = 3
    /\ NonBlankRows = 1..3
    /\ \A i \in 1..3 : Trimmed(i) = Trimmed(1)
    /\ \E i \in 1..3 : column[i] # column[1]
    /\ Len(rules) = 1

FixedFields(r) ==
    /\ r.isActive = TRUE
    /\ r.applicability = "All supply sizes"
    /\ r.effectiveDate = "2024-01-01T00:00:00.000Z"

IsTrimmedIdOfColumn(id) == \E i \in 1..Len(column) : column[i] # None /\ id = Trimmed(i)

\* C10 as claimed: every record carries the trimmed identifier, the active
\* flag true, the fixed applicability and effective date, and one and the
\* same description string whatever the row.
C10_SameDescriptionEverywhere ==
    /\ \A k \in 1..Len(rules) :
          IsTrimmedIdOfColumn(rules[k].ruleId) /\ FixedFields(rules[k])
    /\ \A k, n \in 1..Len(rules) : rules[k].description = rules[n].description

\* C10 as amended: every record carries the trimmed identifier, the active
\* flag true, the fixed applicability and effective date, and the
\* description "Compliance rule " followed by its own identifier.
C10_DescriptionIsPrefixPlusId ==
    \A k \in 1..Len(rules) :
        /\ IsTrimmedIdOfColumn(rules[k].ruleId)
        /\ FixedFields(rules[k])
        /\ rules[k].description =
              <<"C","o","m","p","l","i","a","n","c","e"," ","r","u","l","e"," ">>
              \o rules[k].ruleId

\* C10 witness: a finished run with two records whose descriptions differ,
\* one of them taken from a cell with surrounding whitespace.
C10_Witness ==
    /\ rx_pc = "done"
    /\ \E k, n \in 1..Len(rules) : rules[k].description # rules[n].description
    /\ \E i \in NonBlankRows : Val(column[i]) # Trimmed(i)

---------------------------------------------------------------------------
(* Keyword-Bucket Scanner: what the claims say *)

\* the bucket table of the specification: keywords, and the two ends of the
\* length range, for each bucket name
BucketTable ==
    [high_risk_areas |->
        [keywords |-> {<<"h","i","g","h"," ","r","i","s","k">>,
                      <<"c","r","i","t","i","c","a","l">>,
                      <<"p","r","i","o","r","i","t","y">>},
         lo |-> 20, hi |-> 200],
     enforcement_focus |-> [keywords |-> {}, lo |-> 0, hi |-> 0],
     supply_categories |->
        [keywords |-> {<<"c","a","t","e","g","o","r","y">>,
                      <<"t","i","e","r">>,
                      <<"s","u","p","p","l","i","e","r">>},
         lo |-> 15, hi |-> 150],
     key_metrics |-> [keywords |-> {}, lo |-> 0, hi |-> 0],
     risk_factors |->
        [keywords |-> {<<"r","i","s","k"," ","f","a","c","t","o","r">>,
                      <<"r","i","s","k"," ","l","e","v","e","l">>},
         lo |-> 15, hi |-> 150]]

BucketNames == DOMAIN BucketTable
ScannedBuckets == {"high_risk_areas", "supply_categories", "risk_factors"}

\* the scan of ks_text is over: ks_cands holds, per bucket, the lines
\* appended by the loop of lines 51-67, before duplicates are removed
KsScanned == ks_pc = "dedup"

\* extract_priorities has returned and its result is the last of results;
\* ks_text and ks_cands are still those of that call
KsReturned == ks_pc \in {"loop", "done"} /\ ks_results # << >>

KsInputLines == Split(ks_text, "\n")
KsOutput == ks_results[Len(ks_results)].priorities
KsEntries(bucket) == BagToSet(KsOutput[bucket])
KsCandidates(bucket) == Range(ks_cands[bucket])

KeywordLine(line, bucket) ==
    LET low == Lower(line)
    IN  \E kw \in BucketTable[bucket].keywords : Contains(low, kw)

LineQualifies(line, bucket) ==
    LET n == Len(Strip(line))
    IN  /\ n > BucketTable[bucket].lo
        /\ n < BucketTable[bucket].hi
        /\ KeywordLine(line, bucket)

QualifyingEntriesOf(lines, bucket) ==
    {Strip(lines[i]) : i \in {j \in DOMAIN lines : LineQualifies(lines[j], bucket)}}

QualifyingEntries(bucket) == QualifyingEntriesOf(KsInputLines, bucket)

\* C11: every entry of a scanned bucket's output is the trimmed form of an
\* input line that contains one of the bucket's keywords (case-insensitively)
\* and whose trimmed length is strictly inside the bucket's range; nothing
\* else is ever in the bucket: the lines the scan collects are such lines
\* and the output is drawn from the lines collected.
C11_BucketEntriesQualify ==
    /\ KsScanned =>
          \A bucket \in ScannedBuckets : KsCandidates(bucket) \subseteq QualifyingEntries(bucket)
    /\ KsReturned =>
          \A bucket \in ScannedBuckets : KsEntries(bucket) \subseteq KsCandidates(bucket)

\* a text with a keyword line that is too short and one, written with
\* surrounding whitespace, that qualifies: only the trimmed second one is kept
C11_Witness ==
    /\ KsReturned
    /\ KsEntries("high_risk_areas") = {L_hr21}
    /\ Len(KsInputLines) >= 2
    /\ KsInputLines[1] = L_hr20
    /\ KsInputLines[2] = L_hr21sp
    /\ KeywordLine(L_hr20, "high_risk_areas")

\* what a bucket holds of the keyword lines whose trimmed length is at an end
\* of the range (excluded) or next to it (included)
LengthCase(lines, bucket, held, excluded, included) ==
    \A i \in DOMAIN lines :
        LET n == Len(Strip(lines[i]))
        IN  /\ (n \in excluded /\ KeywordLine(lines[i], bucket))
                  => Strip(lines[i]) \notin held
            /\ (n \in included /\ KeywordLine(lines[i], bucket))
                  => Strip(lines[i]) \in held

\* C12: the length bounds are exclusive and measured on the trimmed line.  A
\* keyword line of trimmed length 20 or 200 is not collected for
\* high_risk_areas and one of length 21 or 199 is; for supply_categories and
\* risk_factors 15 and 150 are out, 16 and 149 are in.  No entry of the
\* output has a length at or outside the ends of its bucket's range, and the
\* lines collected are all in the output when at most 10 of them are distinct.
C12_ExclusiveLengthBounds ==
    /\ KsScanned =>
          /\ LengthCase(KsInputLines, "high_risk_areas",
                        KsCandidates("high_risk_areas"), {20, 200}, {21, 199})
          /\ LengthCase(KsInputLines, "supply_categories",
                        KsCandidates("supply_categories"), {15, 150}, {16, 149})
          /\ LengthCase(KsInputLines, "risk_factors",
                        KsCandidates("risk_factors"), {15, 150}, {16, 149})
    /\ KsReturned =>
          /\ \A e \in KsEntries("high_risk_areas") : Len(e) \in 21..199
          /\ \A e \in KsEntries("supply_categories") : Len(e) \in 16..149
          /\ \A e \in KsEntries("risk_factors") : Len(e) \in 16..149
          /\ \A bucket \in ScannedBuckets :
                Cardinality(KsCandidates(bucket)) <= 10
                   => KsCandidates(bucket) \subseteq KsEntries(bucket)

\* a 22-character line that is 20 characters long once trimmed, followed by
\* a line of 199 characters: only the second is kept
C12_Witness ==
    /\ KsReturned
    /\ KsEntries("high_risk_areas") = {L_hr199}
    /\ Len(KsInputLines) >= 2
    /\ KsInputLines[1] = L_hr20sp /\ Len(KsInputLines[1]) = 22
    /\ Len(Strip(KsInputLines[1])) = 20
    /\ KsInputLines[2] = L_hr199 /\ Len(KsInputLines[2]) = 199

\* the lines the scan collects for each bucket are, duplicates apart, the
\* trimmed qualifying lines of the text
CollectedAreQualifying ==
    KsScanned =>
        \A bucket \in BucketNames : KsCandidates(bucket) = QualifyingEntries(bucket)

\* C13: every bucket's output has min(10, number of distinct trimmed
\* qualifying lines) entries, hence never more than 10.
C13_CapAtTen ==
    /\ CollectedAreQualifying
    /\ KsReturned =>
          \A bucket \in BucketNames :
              /\ BagCardinality(KsOutput[bucket])
                    = Min(10, Cardinality(KsCandidates(bucket)))
              /\ BagCardinality(KsOutput[bucket]) <= 10

\* 15 distinct qualifying lines, 10 entries
C13_Witness ==
    /\ KsReturned
    /\ BagCardinality(KsOutput.high_risk_areas) = 10
    /\ Cardinality(KsCandidates("high_risk_areas")) = 15
    /\ Cardinality(QualifyingEntries("high_risk_areas")) = 15

\* C14: the entries of a bucket are pairwise distinct; lines equal after
\* trimming give one entry; duplicates are removed before the cap, so the
\* bucket holds min(10, distinct) different strings, all of the distinct
\* qualifying lines when there are at most 10 of them.
C14_DistinctBeforeCap ==
    /\ CollectedAreQualifying
    /\ KsReturned =>
          \A bucket \in BucketNames :
              /\ \A e \in KsEntries(bucket) : CopiesIn(e, KsOutput[bucket]) = 1
              /\ Cardinality(KsEntries(bucket))
                    = Min(10, Cardinality(KsCandidates(bucket)))
              /\ Cardinality(KsCandidates(bucket)) <= 10
                    => KsEntries(bucket) = KsCandidates(bucket)

\* 11 qualifying lines, two of them equal after trimming: all 10 distinct
\* lines are in the output
C14_Witness ==
    /\ KsReturned
    /\ Len(ks_cands.high_risk_areas) = 11
    /\ Cardinality(KsCandidates("high_risk_areas")) = 10
    /\ KsEntries("high_risk_areas") = KsCandidates("high_risk_areas")
    /\ KsInputLines[1] # KsInputLines[2]
    /\ Strip(KsInputLines[1]) = Strip(KsInputLines[2])
    /\ LineQualifies(KsInputLines[1], "high_risk_areas")
    /\ LineQualifies(KsInputLines[2], "high_risk_areas")

\* the candidates of one bucket, computed from that bucket's row of the
\* table alone
CandidatesOfBucketAlone(lines, bucket) ==
    LET Test(line) == LineQualifies(line, bucket)
        kept == SelectSeq(lines, Test)
    IN  [i \in 1..Len(kept) |-> Strip(kept[i])]

\* C15: buckets are independent.  The lines collected for each bucket are
\* what a scan with that bucket alone collects, and a line collected for
\* several buckets is in the output of each of them that has at most 10
\* distinct candidates.
C15_BucketsIndependent ==
    /\ KsScanned =>
          \A bucket \in BucketNames :
              ks_cands[bucket] = CandidatesOfBucketAlone(KsInputLines, bucket)
    /\ KsReturned =>
          \A bucket \in BucketNames :
              Cardinality(KsCandidates(bucket)) <= 10
                 => \A i \in DOMAIN ks_cands[bucket] :
                       ks_cands[bucket][i] \in KsEntries(bucket)

\* one line with a keyword of each of the three scanned buckets is in all
\* three outputs
C15_Witness ==
    /\ KsReturned
    /\ \A bucket \in ScannedBuckets : L_all \in KsEntries(bucket)
    /\ KsInputLines[1] = L_all
    /\ \A bucket \in ScannedBuckets : LineQualifies(L_all, bucket)

\* C16: the result always has the five bucket names; a bucket no line
\* qualifies for is empty, so the empty text gives five empty buckets; the
\* scan itself never ends the run, which stops early only on a file that
\* cannot be opened.
C16_EmptyTextEmptyBuckets ==
    /\ KsScanned =>
          /\ DOMAIN ks_cands = BucketNames
          /\ \A bucket \in BucketNames :
                QualifyingEntries(bucket) = {} => ks_cands[bucket] = << >>
          /\ ks_text = << >> => \A bucket \in BucketNames : ks_cands[bucket] = << >>
    /\ KsReturned =>
          /\ DOMAIN KsOutput = BucketNames
          /\ \A bucket \in BucketNames :
                ks_cands[bucket] = << >> => KsOutput[bucket] = EmptyBag
    /\ ks_pc = "crashed" => ~ks_docs[ks_idx].opens

\* a document without pages: the text is empty and the result is there,
\* with its five buckets empty
C16_Witness ==
    /\ KsReturned
    /\ ks_docs[1] = MkDoc(<< >>)
    /\ Len(ks_results) = 1 /\ ks_results[1].document_name = 1
    /\ ks_text = << >>
    /\ DOMAIN KsOutput = BucketNames
    /\ \A bucket \in BucketNames : KsOutput[bucket] = EmptyBag

\* every page of the document could be read
Readable(doc) == doc.opens /\ \A i \in DOMAIN doc.pages : ~IsNone(doc.pages[i])

\* C17: a document whose opening or page-text extraction fails has no record
\* in results, nor in the saved file.
C17_NoResultForUnreadable ==
    /\ \A i \in DOMAIN ks_results :
          Readable(ks_docs[ks_results[i].document_name])
    /\ ~IsNone(ks_file) =>
          \A i \in DOMAIN Val(ks_file).results :
              Readable(ks_docs[Val(ks_file).results[i].document_name])

---------------------------------------------------------------------------
(* Batches: what the claims say *)

\* the indices of the documents of a batch whose file exists
Found(docs) == {i \in DOMAIN docs : docs[i].exists}

\* the records saved, given by the names they carry, are those of the
\* documents found, one each and in batch order, and the count field is
\* their number
SavedIsFound(docs, count, names) ==
    /\ count = Len(names)
    /\ Range(names) = Found(docs)
    /\ \A i, j \in DOMAIN names : i < j => names[i] < names[j]

StrategyNames(results) == [i \in DOMAIN results |-> results[i].document_name]
TemplateNames(results) == [i \in DOMAIN results |-> results[i].template_name]

\* C18: a missing file gives no record and does not end the run (only a file
\* that cannot be opened does); the saved output holds exactly one record per
\* document found and its count field is the number of records.  The Excel
\* analyser and the rule extractor write no output when the template, or the
\* RuleIDs sheet, is missing.
C18_MissingFileSkipped ==
    /\ \A i \in DOMAIN ks_results : ks_results[i].document_name \in Found(ks_docs)
    /\ \A i \in DOMAIN dw_results : dw_results[i].template_name \in Found(dw_docs)
    /\ ks_pc = "crashed" => ks_docs[ks_idx].exists
    /\ dw_pc = "crashed" => dw_docs[dw_idx].exists
    /\ ~IsNone(ks_file) =>
          SavedIsFound(ks_docs, Val(ks_file).documents_analyzed,
                       StrategyNames(Val(ks_file).results))
    /\ ~IsNone(dw_file) =>
          SavedIsFound(dw_docs, Val(dw_file).templates_analyzed,
                       TemplateNames(Val(dw_file).results))
    /\ ~template_exists => (output_file = None /\ analysis = << >>)
    /\ (~rx_exists \/ ~rx_has_sheet) => (rules_file = None /\ rules = << >>)

\* the first strategy is missing, the second is analysed and is the only
\* record saved
C18_Witness ==
    /\ ks_pc = "done"
    /\ ~ks_docs[1].exists /\ ks_docs[2].exists
    /\ Val(ks_file).documents_analyzed = 1
    /\ Len(Val(ks_file).results) = 1
    /\ Val(ks_file).results[1].document_name = 2

\* the header scan of one sheet, run from the values the locals have at the
\* top of the loop body
RECURSIVE ScanSheetAlone(_, _, _, _)
ScanSheetAlone(sheet, r, hs, dsr) ==
    IF r \notin ScanRange(sheet.max_row)
    THEN [headers |-> hs, data_start_row |-> dsr]
    ELSE LET row_values == RowValues(sheet, r)
             non_empty == NonEmpty(row_values)
         IN  IF IsCandidate(non_empty) /\ AcceptsHeader(dsr, non_empty)
             THEN ScanSheetAlone(sheet, r + 1, row_values, Some(r + 1))
             ELSE ScanSheetAlone(sheet, r + 1, hs, dsr)

\* the analysis of a sheet that is the only sheet of its workbook
AnalyzeSheetAlone(sheet) ==
    LET st == ScanSheetAlone(sheet, 1, << >>, None)
    IN  SheetAnalysis(sheet, st.headers, st.data_start_row,
                      IF st.headers # << >> THEN Some(HeaderDetails(st.headers))
                      ELSE None)

\* the elements found in a text by a call of its own
RECURSIVE SearchLinesAlone(_, _)
SearchLinesAlone(elements, lines) ==
    IF lines = << >> THEN elements
    ELSE SearchLinesAlone(SearchLine(elements, Head(lines)), Tail(lines))

FindDwspElementsAlone(text) == SearchLinesAlone(FreshElements, Split(text, "\n"))

\* what the analysis of a workbook, and the extraction from a column, are as
\* functions of their input
HeaderResultDetermined ==
    pc = "done" =>
        Val(output_file) = [i \in DOMAIN wb |-> AnalyzeSheetAlone(wb[i])]

RulesResultDetermined ==
    rx_pc = "done" => Val(rules_file) = OutputData(ExtractRules(column))

\* the number of results the deduplication step of the scanner can give
DedupOutcomes == Cardinality(PossiblePriorities(ks_cands, DOMAIN ks_cands))

\* C19 as stated: the three operations give the same result for the same
\* input on every run; for the scanner, the same set of lines in each bucket
\* for every text.
C19_SameResultEveryRun ==
    /\ HeaderResultDetermined
    /\ RulesResultDetermined
    /\ KsScanned => DedupOutcomes = 1

\* C19: header location and rule extraction give the same result for the
\* same input on every run.  The scanner gives the same number of entries
\* per bucket, and the same set of lines in every bucket with at most 10
\* distinct qualifying lines; with more than 10, which 10 are kept is not
\* determined by the text.
C19_SameResultUpToCap ==
    /\ HeaderResultDetermined
    /\ RulesResultDetermined
    /\ KsScanned =>
          IF \A bucket \in BucketNames : Cardinality(KsCandidates(bucket)) <= 10
          THEN DedupOutcomes = 1
          ELSE DedupOutcomes > 1
    /\ KsReturned =>
          \A bucket \in BucketNames :
              /\ Cardinality(KsEntries(bucket))
                    = Min(10, Cardinality(KsCandidates(bucket)))
              /\ Cardinality(KsCandidates(bucket)) <= 10
                    => KsEntries(bucket) = KsCandidates(bucket)

\* a text with 6 distinct high-risk lines: one outcome, the 6 lines
C19_Witness ==
    /\ KsReturned
    /\ Cardinality(KsCandidates("high_risk_areas")) = 6
    /\ KsEntries("high_risk_areas") = Range(Block(6))
    /\ Cardinality(PossiblePriorities(ks_cands, DOMAIN ks_cands)) = 1

\* C20: nothing carries over between inputs.  What is recorded for a sheet
\* is what analysing that sheet alone gives, whatever sheets came before it;
\* the elements recorded for a template are those a call on its text alone
\* finds, and the buckets recorded for a strategy are among those a scan of
\* its text alone can give.
C20_NothingCarriesOver ==
    /\ (pc = "sheets" /\ analysis # << >>) =>
          analysis[Len(analysis)] = AnalyzeSheetAlone(wb[Len(analysis)])
    /\ pc = "done" =>
          \A i \in DOMAIN wb : Val(output_file)[i] = AnalyzeSheetAlone(wb[i])
    /\ (dw_pc = "loop" /\ dw_results # << >>) =>
          LET r == dw_results[Len(dw_results)]
              text == ExtractPdfText(dw_docs[r.template_name])
          IN  /\ r.elements = FindDwspElementsAlone(text)
              /\ r.elements_found = FoundCount(FindDwspElementsAlone(text))
    /\ (ks_pc = "loop" /\ ks_results # << >>) =>
          LET r == ks_results[Len(ks_results)]
              cands == Candidates(ExtractPdfText(ks_docs[r.document_name]))
          IN  r.priorities \in PossiblePriorities(cands, DOMAIN cands)

\* a sheet without header after a sheet with one: header_details still holds
\* the first sheet's headers, and the second sheet is recorded without any
C20_Witness ==
    /\ pc = "done" /\ Len(wb) = 2
    /\ analysis[1].headers # << >> /\ ~IsNone(analysis[1].data_start_row)
    /\ header_details = Some(analysis[1].headers)
    /\ analysis[2].headers = << >>
    /\ IsNone(analysis[2].data_start_row) /\ IsNone(analysis[2].header_row)

---------------------------------------------------------------------------
(* Sheet-Header Locator: the scan step by step *)

\* the rows the scan of the current sheet has been through
RowsScanned == 1..(row_idx - 1)

\* C21: during the scan of a sheet, headers and data_start_row stay unset as
\* long as no scanned row has qualified, and from the step that accepts a row
\* on they never change until the sheet is finished, whatever the later rows
\* of the window hold.
C21_HeaderFixedOnceAccepted ==
    /\ [](pc = "scan" =>
            /\ IsNone(data_start_row) <=> headers = << >>
            /\ IsNone(data_start_row)
                  <=> \A r \in RowsScanned : ~Qualifies(wb[sheet_idx], r))
    /\ [][(pc = "scan" /\ ~IsNone(data_start_row))
            => (data_start_row' = data_start_row /\ headers' = headers)]_vars

\* the first row was accepted, and the second row, which has a keyword and
\* more non-empty cells than the first, has been scanned since
C21_Witness ==
    /\ pc = "scan" /\ row_idx = 3
    /\ Qualifies(wb[sheet_idx], 1) /\ Qualifies(wb[sheet_idx], 2)
    /\ Cardinality(NonEmptyCols(wb[sheet_idx], 2))
          > Cardinality(NonEmptyCols(wb[sheet_idx], 1))
    /\ data_start_row = Some(2)
    /\ headers = RowValues(wb[sheet_idx], 1)

\* the rows the sample loop of the specification prints: up to 4 rows from
\* the data-start row on, none beyond the last row of the sheet
ExpectedSample(dsr, max_row) ==
    IF IsNone(dsr) THEN {}
    ELSE {r \in Val(dsr)..(Val(dsr) + 3) : r <= max_row}

\* C27: a data-start row that is set lies between 2 and min(20, max_row) + 1.
\* It may exceed the number of rows: a header accepted on the last row of
\* the sheet gives max_row + 1, and then no row is sampled.
C27_DataStartRowRange ==
    /\ (pc = "scan" /\ ~IsNone(data_start_row)) =>
          /\ Val(data_start_row) >= 2
          /\ Val(data_start_row) <= Min(20, wb[sheet_idx].max_row) + 1
    /\ \A i \in 1..Len(analysis) :
          LET sh == wb[i]
              dsr == analysis[i].data_start_row
          IN  /\ ~IsNone(dsr) =>
                    /\ Val(dsr) >= 2
                    /\ Val(dsr) <= Min(20, sh.max_row) + 1
              /\ (/\ sh.max_row \in 1..20
                  /\ QualifyingRows(sh) = {sh.max_row})
                 => dsr = Some(sh.max_row + 1)
    /\ (pc = "sheets" /\ analysis # << >>) =>
          LET sh == wb[Len(analysis)]
              dsr == analysis[Len(analysis)].data_start_row
          IN  /\ sampled = ExpectedSample(dsr, sh.max_row)
              /\ dsr = Some(sh.max_row + 1) => sampled = {}

\* a sheet of several rows whose last row is the header: data_start_row is
\* one more than the number of rows and nothing is sampled
C27_Witness ==
    /\ pc = "sheets" /\ analysis # << >>
    /\ wb[Len(analysis)].max_row >= 2
    /\ analysis[Len(analysis)].data_start_row = Some(wb[Len(analysis)].max_row + 1)
    /\ Qualifies(wb[Len(analysis)], wb[Len(analysis)].max_row)
    /\ sampled = {}

---------------------------------------------------------------------------
(* DWSP element finder: what the claims say *)

\* the search loop has been through the first dw_line_idx - 1 lines
DwSearching == dw_pc = "lines"

\* analyze_template has returned and its record is the last of results;
\* dw_lines and dw_elements are still those of that call
DwReturned == dw_pc \in {"loop", "done"} /\ dw_results # << >>

\* the line holds something besides whitespace and, ignoring case, one of
\* the keywords of the element
ElementLine(low, entry, k) ==
    /\ entry # << >>
    /\ \E i \in DOMAIN DwspElements[k].keywords :
          Contains(low, DwspElements[k].keywords[i])

\* the entries of a list without repetitions, in order of first occurrence
RECURSIVE DistinctInOrder(_)
DistinctInOrder(q) ==
    IF q = << >> THEN << >>
    ELSE LET before == DistinctInOrder(SubSeq(q, 1, Len(q) - 1))
         IN  IF \E i \in DOMAIN before : before[i] = q[Len(q)]
             THEN before
             ELSE Append(before, q[Len(q)])

\* the trimmed lines, among the first n, that are lines of element k
RECURSIVE ElementLines(_, _, _)
ElementLines(lines, n, k) ==
    IF n = 0 THEN << >>
    ELSE LET entry == Strip(lines[n])
         IN  ElementLines(lines, n - 1, k)
                \o (IF ElementLine(Lower(lines[n]), entry, k) THEN <<entry>> ELSE << >>)

SectionsOk(elements, lines, n) ==
    \A k \in DOMAIN DwspElements :
        LET sections == elements[k].sections
        IN  /\ sections = DistinctInOrder(ElementLines(lines, n, k))
            /\ \A i, j \in DOMAIN sections : i # j => sections[i] # sections[j]
            /\ \A i \in DOMAIN sections :
                  /\ sections[i] # << >>
                  /\ sections[i] = Strip(sections[i])
                  /\ ElementLine(Lower(sections[i]), sections[i], k)

C23_FoundIffSections ==
    /\ [](DwSearching =>
            \A k \in DOMAIN dw_elements :
                dw_elements[k].found <=> dw_elements[k].sections # << >>)
    /\ [][(DwSearching /\ dw_pc' = "lines") =>
            \A k \in DOMAIN dw_elements :
                dw_elements[k].found => dw_elements'[k].found]_vars
    /\ [](\A i \in DOMAIN dw_results :
            LET r == dw_results[i]
            IN  /\ r.elements_found
                      = Cardinality({k \in DOMAIN r.elements : r.elements[k].found})
                /\ r.elements_found \in 0..12)

\* a record in which three of the twelve elements were found
C23_Witness ==
    /\ DwReturned
    /\ LET r == dw_results[Len(dw_results)]
       IN  /\ r.elements_found = 3
           /\ {k \in DOMAIN r.elements : r.elements[k].found}
                 = {"element_2", "element_6", "element_8"}
           /\ r.elements["element_1"].sections = << >>

---------------------------------------------------------------------------
(* Rule-identifier extractor: the table and the count *)

\* the identifier starts with the prefix, character for character
HasPrefix(id, prefix) ==
    /\ Len(id) >= Len(prefix)
    /\ \A k \in 1..Len(prefix) : id[k] = prefix[k]

\* rows of the classification table whose prefix the identifier starts with
TableHits(id) == {n \in 1..Len(PrefixTable) : HasPrefix(id, PrefixTable[n][1])}

\* the category the table gives when its rows are tried in the order given
\* by the sequence of row numbers
RECURSIVE CategoryInOrder(_, _)
CategoryInOrder(id, order) ==
    IF order = << >> THEN "WATER_QUALITY"
    ELSE IF HasPrefix(id, PrefixTable[Head(order)][1])
         THEN PrefixTable[Head(order)][2]
         ELSE CategoryInOrder(id, Tail(order))

\* the table back to front, and its rows rotated by s
ReversedOrder == [n \in 1..Len(PrefixTable) |-> Len(PrefixTable) + 1 - n]
RotatedOrder(s) ==
    [n \in 1..Len(PrefixTable) |-> ((n + s - 1) % Len(PrefixTable)) + 1]

LowerCasePrefixes == { <<"t","1">>, <<"m">>, <<"v">>, <<"o">> }

\* C24: no prefix of the table is the beginning of another, so an extracted
\* identifier starts with at most one of them and its category is the one
\* any order of the table gives; the comparison is case-sensitive: an
\* identifier starting with t1, m, v or o in lower case is WATER_QUALITY.
C24_CategoryIndependentOfOrder ==
    /\ \A m, n \in 1..Len(PrefixTable) :
          m # n => ~HasPrefix(PrefixTable[m][1], PrefixTable[n][1])
    /\ \A k \in 1..Len(rules) :
          LET id == rules[k].ruleId
          IN  /\ Cardinality(TableHits(id)) <= 1
              /\ \A n \in TableHits(id) : rules[k].category = PrefixTable[n][2]
              /\ TableHits(id) = {} => rules[k].category = "WATER_QUALITY"
              /\ rules[k].category = CategoryInOrder(id, ReversedOrder)
              /\ \A s \in 0..(Len(PrefixTable) - 1) :
                    rules[k].category = CategoryInOrder(id, RotatedOrder(s))
              /\ (\E p \in LowerCasePrefixes : HasPrefix(id, p))
                    => rules[k].category = "WATER_QUALITY"

\* a finished run in which t1.8-Ecol is WATER_QUALITY next to T1.8-ecol,
\* BACTERIOLOGICAL, and M1-a-B, MONITORING
C24_Witness ==
    /\ rx_pc = "done"
    /\ \E a, b, c \in 1..Len(rules) :
          /\ rules[a].ruleId = <<"t","1",".","8","-","E","c","o","l">>
          /\ rules[a].category = "WATER_QUALITY"
          /\ rules[b].ruleId = <<"T","1",".","8","-","e","c","o","l">>
          /\ rules[b].category = "BACTERIOLOGICAL"
          /\ rules[c].ruleId = <<"M","1","-","a","-","B">>
          /\ rules[c].category = "MONITORING"

\* distinct trimmed non-blank values of the whole column
DistinctIds ==
    {Strip(Val(column[i])) :
        i \in {j \in 1..Len(column) :
                  /\ column[j] # None
                  /\ \E k \in 1..Len(Val(column[j])) : ~IsSpace(Val(column[j])[k])}}

\* C25: in the file written, metadata.totalRules is the length of the rules
\* list, which is the number of distinct trimmed non-blank values of column
\* A over rows 1..max_row; row 1 is read like any other row; blanks and
\* repetitions are not counted.
C25_TotalRulesIsDistinctCount ==
    /\ rx_pc = "done" =>
          /\ ~IsNone(rules_file)
          /\ Val(rules_file).rules = rules
          /\ Val(rules_file).metadata.totalRules = Len(Val(rules_file).rules)
          /\ Val(rules_file).metadata.totalRules = Cardinality(DistinctIds)
          /\ (Len(column) >= 1 /\ column[1] # None /\ Strip(Val(column[1])) # << >>)
                => (rules # << >> /\ rules[1].ruleId = Strip(Val(column[1])))
    /\ rx_pc # "done" => IsNone(rules_file)

\* three rows, an identifier in row 1, a blank cell, and the identifier
\* again with whitespace around it: one rule counted
C25_Witness ==
    /\ rx_pc = "done"
    /\ Len(column) = 3
    /\ column[1] = T(<<"T","1",".","8","-","e","c","o","l">>)
    /\ column[2] = T(<<" "," ">>)
    /\ column[3] = T(<<" ","T","1",".","8","-","e","c","o","l","\t">>)
    /\ Val(rules_file).metadata.totalRules = 1
    /\ Val(rules_file).rules[1].ruleId = <<"T","1",".","8","-","e","c","o","l">>

---------------------------------------------------------------------------
(* Keyword-bucket scanner: the two buckets never filled *)

FiveBuckets ==
    {"high_risk_areas", "enforcement_focus", "supply_categories",
     "key_metrics", "risk_factors"}

\* C26: the priorities of every result have exactly the five bucket names,
\* and enforcement_focus and key_metrics are empty whatever the text: the
\* scan adds no line to them.
C26_FocusAndMetricsEmpty ==
    /\ KsScanned =>
          /\ DOMAIN ks_cands = FiveBuckets
          /\ ks_cands["enforcement_focus"] = << >>
          /\ ks_cands["key_metrics"] = << >>
    /\ \A i \in DOMAIN ks_results :
          /\ DOMAIN ks_results[i].priorities = FiveBuckets
          /\ ks_results[i].priorities["enforcement_focus"] = EmptyBag
          /\ ks_results[i].priorities["key_metrics"] = EmptyBag

\* a text that fills the three other buckets
C26_Witness ==
    /\ KsReturned
    /\ KsOutput["high_risk_areas"] # EmptyBag
    /\ KsOutput["supply_categories"] # EmptyBag
    /\ KsOutput["risk_factors"] # EmptyBag
    /\ KsOutput["enforcement_focus"] = EmptyBag
    /\ KsOutput["key_metrics"] = EmptyBag

---------------------------------------------------------------------------
(* Document download: what the claims say *)

DlTable == UrlTable(dl_script)
DlRunning == dl_pc \in {"loop", "done"}
Reported(what) == {k \in DOMAIN dl_log : dl_log[k].reported = what}

\* C28: the calls made so far are the first entries of the table, one call
\* each, in table order; whatever the calls met, the loop goes on while
\* entries remain and the script ends only after a call for every entry; in
\* download_additional_docs success_count and failed_count count the calls
\* that returned True and False, so that at the end they add up to the
\* number of entries.
C28_EveryEntryAttemptedOnce ==
    DlRunning =>
        /\ Len(dl_log) = dl_idx - 1
        /\ Len(dl_log) <= Len(DlTable)
        /\ \A k \in DOMAIN dl_log : dl_log[k].name = DlTable[k]
        /\ \A j, k \in DOMAIN dl_log : j # k => dl_log[j].name # dl_log[k].name
        /\ (dl_pc = "loop" /\ Len(dl_log) < Len(DlTable))
              => ENABLED (DlAdditional \/ DlPdf)
        /\ dl_pc = "done" => Len(dl_log) = Len(DlTable)
        /\ dl_script = "additional" =>
              /\ success_count = Cardinality(Reported("SUCCESS"))
              /\ failed_count = Cardinality(Reported("FAILED"))
              /\ success_count + failed_count = Len(dl_log)
              /\ dl_pc = "done" => success_count + failed_count = Len(AdditionalDocs)

\* download_additional_docs finished: the second request timed out, the four
\* after it were made all the same, and the counts are 5 and 1
C28_Witness ==
    /\ dl_script = "additional" /\ dl_pc = "done"
    /\ Len(dl_log) = 6
    /\ dl_log[2].outcome.raised /\ dl_log[2].reported = "FAILED"
    /\ \A k \in {1, 3, 4, 5, 6} : dl_log[k].reported = "SUCCESS"
    /\ success_count = 5 /\ failed_count = 1

\* C29: a file is created or overwritten only by a call whose request
\* returned a success status (2xx); a call whose request raised or returned
\* an error status leaves the file as it was and is reported as failed.
C29_FileOnlyAfterSuccess ==
    \A k \in DOMAIN dl_log :
        LET a == dl_log[k]
        IN  /\ a.after # a.before
                  => (~a.outcome.raised /\ a.outcome.status \in 200..299)
            /\ (a.outcome.raised \/ a.outcome.status \in 400..599)
                  => (a.after = a.before /\ a.reported = "FAILED")

---------------------------------------------------------------------------
(* Regulatory document verification gate *)

RgInventory == DocsOf(CriticalDocs)
RgVerified == rg_pc \in {"verified", "aborted", "done"}
SevenFiles ==
    << "phase_1_excel_templates.json", "phase_2_dwsp_templates.json",
       "phase_3_compliance_strategy.json", "phase_4_reporting_guidelines.json",
       "phase_5_standards_monitoring.json", "phase_6_acceptable_solutions.json",
       "MASTER_IMPLEMENTATION_PLAN.json" >>

\* C30: once verify_documents has returned, each of the 16 documents is in
\* exactly one of found and missing (found: the files that exist); the
\* files written are the first of phase 1..6, master plan, in that order; a
\* file is written only when at least 10 documents were found, in which
\* case main goes on until all seven are written; with fewer than 10 main
\* returns having written none.
C30_GateAtTenDocuments ==
    /\ Cardinality(RgInventory) = 16
    /\ RgVerified =>
          /\ Range(rg_found) \cap Range(rg_missing) = {}
          /\ Range(rg_found) \cup Range(rg_missing) = RgInventory
          /\ Len(rg_found) + Len(rg_missing) = 16
          /\ Range(rg_found) = rg_present
    /\ Len(rg_written) <= Len(SevenFiles)
    /\ \A k \in DOMAIN rg_written : rg_written[k] = SevenFiles[k]
    /\ rg_written # << >> => (RgVerified /\ Len(rg_found) >= 10)
    /\ rg_pc = "aborted" => (Len(rg_found) < 10 /\ rg_written = << >>)
    /\ rg_pc = "done" => (Len(rg_found) >= 10 /\ rg_written = SevenFiles)
    /\ rg_pc = "verified" =>
          /\ Len(rg_found) >= 10 => ENABLED (RgPhase \/ RgMaster)
          /\ Len(rg_found) >= 10 => ~ENABLED RgTooFew
          /\ Len(rg_found) < 10 => (ENABLED RgTooFew /\ ~ENABLED (RgPhase \/ RgMaster))

\* exactly ten of the sixteen documents exist, Acceptable_Solution_Roof_Water.pdf
\* not among them: the seven files are written
C30_Witness ==
    /\ rg_pc = "done"
    /\ Len(rg_found) = 10 /\ Len(rg_missing) = 6
    /\ "Acceptable_Solution_Roof_Water.pdf" \in Range(rg_missing)
    /\ rg_written = SevenFiles

=============================================================================
